---- MODULE Spec2Model ----
(***************************************************************************)
(* A model of textfree86 (src/textfree86.py): the value codec, the         *)
(* argument binder, the command tree and the two transports.               *)
(*                                                                         *)
(* Python values are modelled as tagged tuples:                            *)
(*   <<"bool", b>>  <<"none">>  <<"int", n>>  <<"float", repr>>            *)
(*   <<"bytes", byte sequence>>  <<"str", code point sequence>>            *)
(*   <<"list", sequence of values>>  <<"tuple", sequence of values>>       *)
(*   <<"dict", sequence of <<key, value>> pairs, in insertion order>>      *)
(*   <<"obj", class name, __dict__ as a sequence of pairs>>                *)
(*   <<"opaque", name>>    an object of a class the codec does not know    *)
(* Byte buffers are sequences of integers 0..255; offsets into a buffer    *)
(* are 0-based as in the source.                                           *)
(***************************************************************************)
EXTENDS Integers, Sequences, FiniteSets, TLC

VARIABLES
    cpc,      \* codec run: "start", "dumped", "parsed"
    cval,     \* codec run: the value handed to codec.dump
    cbuf,     \* codec run: what codec.dump returned (or raised)
    cres,     \* codec run: what codec.parse returned (or raised)
    bpc,      \* binder run: "start", "done"; grammar run: "start", "compiled", "rendered"
    bspec,    \* binder run: the Argspec; grammar run: what parse_argspec returned (or raised)
    bargv,    \* binder run: the argv tokens; grammar run: the tokens of the grammar
    bres,     \* binder run: what parse_args returned (or raised); grammar run: the usage text
    client,   \* pipe run: the parent process, a PipeClient and its caller;
              \* rson run: the thread that calls Server.start() and Server.stop()
    server,   \* pipe run: the child process, running cli.offer_pipe;
              \* rson run: the Server thread and its attribute `running`
    pipe,     \* pipe run: the bytes in flight in each direction;
              \* rson run: the connections waiting on the listening socket
    run,      \* cli.run: the process running cli.run(root, argv, environ)
    disk      \* cli.run: the files of the working directory

vars == <<cpc, cval, cbuf, cres, bpc, bspec, bargv, bres, client, server, pipe, run, disk>>

(***************************************************************************)
(* Python runtime primitives used by the source.                           *)
(***************************************************************************)

\* The printable ASCII characters, the character of code 31 + i at place i;
\* a TLA+ string cannot hold the backquote (code 96), and "?" fills its place.
Ascii ==
    " !\"#$%&'()*+,-./0123456789:;<=>?@ABCDEFGHIJKLMNOPQRSTUVWXYZ[\\]^_?abcdefghijklmnopqrstuvwxyz{|}~"

Ch(s, i) == SubSeq(s, i, i)

OrdMap ==
    [c \in {Ch(Ascii, i) : i \in 1..95} |->
        31 + CHOOSE i \in (1..95) \ {65} : Ch(Ascii, i) = c]

\* ord(c) of a one-character string.
Ord(c) == OrdMap[c]

\* The sequence a function on 1..n is, its elements computed.
AsSeq(f) == f \o <<>>

\* The code points of a string literal.
S(s) == AsSeq([i \in 1..Len(s) |-> Ord(Ch(s, i))])

Min(a, b) == IF a < b THEN a ELSE b
Max(a, b) == IF a > b THEN a ELSE b

\* seq[a:b] with 0-based a, b (negative indexes count from the end).
PySlice(seq, a, b) ==
    LET n  == Len(seq)
        a1 == IF a < 0 THEN Max(a + n, 0) ELSE Min(a, n)
        b1 == IF b < 0 THEN Max(b + n, 0) ELSE Min(b, n)
    IN  SubSeq(seq, a1 + 1, b1)

\* seq.index(x, start): the 0-based position of the first x at or after
\* start, or -1 where Python raises ValueError.
PyIndex(seq, x, start) ==
    LET n  == Len(seq)
        s1 == IF start < 0 THEN Max(start + n, 0) ELSE start
        at == {p \in s1..(n - 1) : seq[p + 1] = x}
    IN  IF at = {} THEN -1 ELSE CHOOSE p \in at : \A q \in at : p <= q

RECURSIVE IntToStr(_)
\* str(n) of an integer.
IntToStr(n) ==
    IF n < 0 THEN "-" \o IntToStr(-n)
    ELSE IF n < 10 THEN Ch("0123456789", n + 1)
    ELSE IntToStr(n \div 10) \o Ch("0123456789", (n % 10) + 1)

IsDigit(b) == b \in 48..57
IsSpace(b) == b \in {9, 10, 11, 12, 13, 28, 29, 30, 31, 32}

\* bs.lstrip() and bs.rstrip()
LStrip(bs) ==
    IF \A i \in 1..Len(bs) : IsSpace(bs[i]) THEN <<>>
    ELSE SubSeq(bs, CHOOSE i \in 1..Len(bs) :
                        ~IsSpace(bs[i]) /\ \A j \in 1..(i - 1) : IsSpace(bs[j]),
                Len(bs))

RStrip(bs) ==
    IF \A i \in 1..Len(bs) : IsSpace(bs[i]) THEN <<>>
    ELSE SubSeq(bs, 1, CHOOSE i \in 1..Len(bs) :
                           ~IsSpace(bs[i]) /\ \A j \in (i + 1)..Len(bs) : IsSpace(bs[j]))

RECURSIVE DigitsValue(_, _)
DigitsValue(ds, acc) ==
    IF ds = <<>> THEN acc
    ELSE IF ds[1] = 95 THEN DigitsValue(Tail(ds), acc)
    ELSE DigitsValue(Tail(ds), acc * 10 + (ds[1] - 48))

\* int(text) of a text given by its code points: surrounding whitespace, one
\* sign, decimal digits with single underscores between them.
PyIntDigits(t) == IF t # <<>> /\ t[1] \in {43, 45} THEN Tail(t) ELSE t

PyIntValid(ds) ==
    /\ ds # <<>>
    /\ \A i \in 1..Len(ds) : IsDigit(ds[i]) \/ ds[i] = 95
    /\ IsDigit(ds[1]) /\ IsDigit(ds[Len(ds)])
    /\ \A i \in 1..(Len(ds) - 1) : ~(ds[i] = 95 /\ ds[i + 1] = 95)

PyIntOf(t, ds) ==
    IF PyIntValid(ds)
    THEN [ok |-> TRUE,
          v  |-> IF t[1] = 45 THEN 0 - DigitsValue(ds, 0) ELSE DigitsValue(ds, 0)]
    ELSE [ok |-> FALSE, err |-> "ValueError"]

PyIntStripped(t) == PyIntOf(t, PyIntDigits(t))

PyInt(bs) == PyIntStripped(RStrip(LStrip(bs)))

\* bytes.decode('ascii'): fails on a byte above 127.
IsAscii(bs) == \A i \in 1..Len(bs) : bs[i] < 128

RECURSIVE Flat(_)
\* The concatenation of a sequence of sequences, by halves.
Flat(ss) ==
    IF ss = <<>> THEN <<>>
    ELSE IF Len(ss) = 1 THEN ss[1]
    ELSE Flat(SubSeq(ss, 1, Len(ss) \div 2)) \o Flat(SubSeq(ss, Len(ss) \div 2 + 1, Len(ss)))

\* str.encode('utf-8') for code points below 2048: a text of code points
\* below 128 is its own encoding.
Utf8Encode(cps) ==
    IF \A i \in 1..Len(cps) : cps[i] < 128 THEN cps
    ELSE Flat([i \in 1..Len(cps) |->
                  IF cps[i] < 128 THEN <<cps[i]>>
                  ELSE <<192 + (cps[i] \div 64), 128 + (cps[i] % 64)>>])

\* bytes.decode('utf-8') for one- and two-byte sequences; ok is FALSE where
\* Python raises UnicodeDecodeError: a lead byte without its continuation
\* byte, a continuation byte without its lead byte, any other byte above 127.
Utf8Decode(bs) ==
    LET n       == Len(bs)
        Cont(i) == bs[i] \in 128..191
        Lead(i) == bs[i] \in 194..223
        valid   == \A i \in 1..n :
                       /\ bs[i] >= 128 => Cont(i) \/ Lead(i)
                       /\ Lead(i) => i < n /\ Cont(i + 1)
                       /\ Cont(i) => i > 1 /\ Lead(i - 1)
        starts  == SelectSeq([i \in 1..n |-> i], LAMBDA i : ~Cont(i))
    IN  IF \A i \in 1..n : bs[i] < 128 THEN [ok |-> TRUE, v |-> bs]
        ELSE IF valid
        THEN [ok |-> TRUE,
              v  |-> AsSeq([k \in 1..Len(starts) |->
                               IF bs[starts[k]] < 128 THEN bs[starts[k]]
                               ELSE (bs[starts[k]] - 192) * 64 + (bs[starts[k] + 1] - 128)])]
        ELSE [ok |-> FALSE, err |-> "UnicodeDecodeError"]

\* float.hex(f), f named by its repr, for the floats the model uses.
FloatHex(f) ==
    CASE f = "0.0"  -> "0x0.0p+0"
      [] f = "0.5"  -> "0x1.0000000000000p-1"
      [] f = "1.5"  -> "0x1.8000000000000p+0"
      [] f = "-2.0" -> "-0x1.0000000000000p+1"
      [] f = "inf"  -> "inf"

Floats == {"0.0", "0.5", "1.5", "-2.0", "inf"}

\* float.fromhex(text) on the texts float.hex produces for Floats.
FloatFromHex(bs) ==
    LET Of(t) ==
            IF \E f \in Floats : S(FloatHex(f)) = t
            THEN [ok |-> TRUE, v |-> CHOOSE f \in Floats : S(FloatHex(f)) = t]
            ELSE [ok |-> FALSE, err |-> "ValueError"]
    IN  Of(RStrip(LStrip(bs)))

(***************************************************************************)
(* The value model.                                                        *)
(***************************************************************************)
VTrue       == <<"bool", TRUE>>
VFalse      == <<"bool", FALSE>>
VBool(b)    == <<"bool", b>>
VNone       == <<"none">>
VInt(n)     == <<"int", n>>
VFloat(f)   == <<"float", f>>
VBytes(bs)  == <<"bytes", bs>>
VStr(s)     == <<"str", S(s)>>
VList(xs)   == <<"list", AsSeq(xs)>>
VDict(kvs)  == <<"dict", AsSeq(kvs)>>
VObj(c, kvs) == <<"obj", c, AsSeq(kvs)>>
VTuple(xs)  == <<"tuple", AsSeq(xs)>>
VOpaque(n)  == <<"opaque", n>>

Kind(v) == v[1]

\* dict operations on a sequence of <<key, value>> pairs.
DictHas(d, k) == \E i \in 1..Len(d) : d[i][1] = k
DictGet(d, k) == d[CHOOSE i \in 1..Len(d) : d[i][1] = k][2]
DictSet(d, k, v) ==
    IF DictHas(d, k)
    THEN [i \in 1..Len(d) |-> IF d[i][1] = k THEN <<k, v>> ELSE d[i]]
    ELSE Append(d, <<k, v>>)
DictKeys(d) == [i \in 1..Len(d) |-> d[i][1]]

\* A byte buffer and its Python type: bytearray (what codec.dump builds) or
\* bytes (what a stream's read returns).
ByteArray(data) == [kind |-> "bytearray", data |-> data]
Bytes(data)     == [kind |-> "bytes", data |-> data]

Raise(e) == [ok |-> FALSE, err |-> e]

(***************************************************************************)
(* class codec                                                             *)
(***************************************************************************)
codec_TRUE   == 121
codec_FALSE  == 110
codec_NULL   == 122
codec_INT    == 105
codec_FLOAT  == 102
codec_STRING == 117
codec_BYTES  == 98
codec_LIST   == 76
codec_RECORD == 82
codec_TAG    == 84
codec_END    == 127

\* The classes decorated with @codec.register(), each with the parameters
\* of its constructor: <<name, has a default, the default>>.
codec_classes ==
    [BadArg     |-> <<>>,
     FileHandle |-> << <<"name", FALSE, VNone>>, <<"mode", FALSE, VNone>>,
                       <<"buf", TRUE, VNone>> >>,
     Argspec    |-> << <<"switches", FALSE, VNone>>, <<"flags", FALSE, VNone>>,
                       <<"lists", FALSE, VNone>>, <<"positional", FALSE, VNone>>,
                       <<"optional", FALSE, VNone>>, <<"tail", FALSE, VNone>>,
                       <<"argtypes", FALSE, VNone>>, <<"descriptions", FALSE, VNone>> >>,
     Request    |-> << <<"action", FALSE, VNone>>, <<"path", FALSE, VNone>>,
                       <<"argv", FALSE, VNone>> >>,
     Response   |-> << <<"exit_code", FALSE, VNone>>, <<"value", FALSE, VNone>>,
                       <<"file_handles", TRUE, VTuple(<<>>)>> >>,
     Command    |-> << <<"prefix", FALSE, VNone>>, <<"name", FALSE, VNone>>,
                       <<"subcommands", FALSE, VNone>>, <<"short", FALSE, VNone>>,
                       <<"long", FALSE, VNone>>, <<"argspec", FALSE, VNone>> >>]

\* codec.tags: the registered class names.
codec_tags == DOMAIN codec_classes

\* cls(**args): the object the constructor of class c builds from the
\* keyword arguments args, or TypeError.
Construct(c, args) ==
    LET Name(p) == <<"str", S(p[1])>>
        Of(ps)  ==
            IF Kind(args) # "dict" THEN Raise("TypeError")
            ELSE IF \E i \in 1..Len(args[2]) : Kind(args[2][i][1]) # "str"
            THEN Raise("TypeError")
            ELSE IF \E i \in 1..Len(args[2]) :
                        \A j \in 1..Len(ps) : args[2][i][1] # Name(ps[j])
            THEN Raise("TypeError")
            ELSE IF \E i \in 1..Len(ps) : ~ps[i][2] /\ ~DictHas(args[2], Name(ps[i]))
            THEN Raise("TypeError")
            ELSE [ok |-> TRUE,
                  v  |-> VObj(c, [i \in 1..Len(ps) |->
                            <<Name(ps[i]),
                              IF DictHas(args[2], Name(ps[i]))
                              THEN DictGet(args[2], Name(ps[i]))
                              ELSE ps[i][3]>>])]
    IN  Of(codec_classes[c])

\* Whether a decoded value can be a dict key: a list or a dict cannot, and
\* neither can a slice of a bytearray buffer.
Hashable(v, kind) ==
    /\ Kind(v) \notin {"list", "dict"}
    /\ ~(Kind(v) = "bytes" /\ kind = "bytearray")

\* The <<key, value>> pairs of a dict as one sequence k1, v1, k2, v2, ...
Flatten(kvs) == [i \in 1..(2 * Len(kvs)) |-> kvs[(i + 1) \div 2][2 - (i % 2)]]

\* The count or length field that follows a type byte: the position of its
\* END and int() of the ASCII text before it.
HeaderSized(end, n) == IF n.ok THEN [ok |-> TRUE, size |-> n.v, end |-> end] ELSE n

HeaderText(end, text) ==
    IF ~IsAscii(text) THEN Raise("UnicodeDecodeError") ELSE HeaderSized(end, PyInt(text))

HeaderAt(buf, offset, end) ==
    IF end < 0 THEN Raise("ValueError")
    ELSE HeaderText(end, PySlice(buf.data, offset + 1, end))

Header(buf, offset) == HeaderAt(buf, offset, PyIndex(buf.data, codec_END, offset + 1))

\* The terminator looked for after a region: `end = buf.index(codec.END, at)`.
Closed(buf, at, val) ==
    LET At(end) == IF end < 0 THEN Raise("ValueError")
                   ELSE [ok |-> TRUE, val |-> val, off |-> end + 1]
    IN  At(PyIndex(buf.data, codec_END, at))

\* The dict that `out[key] = value` builds from the pairs in turn: a key
\* keeps the place of its first pair and the value of its last.
FromPairs(ps) ==
    LET firsts == {i \in 1..Len(ps) : \A j \in 1..(i - 1) : ps[j][1] # ps[i][1]}
        Nth(r)  == CHOOSE i \in firsts : Cardinality({j \in firsts : j < i}) = r - 1
        Last(k) == CHOOSE i \in 1..Len(ps) :
                       ps[i][1] = k /\ \A j \in (i + 1)..Len(ps) : ps[j][1] # k
    IN  IF \A i, j \in 1..Len(ps) : ps[i][1] = ps[j][1] => i = j THEN ps
        ELSE [r \in 1..Cardinality(firsts) |-> <<ps[Nth(r)][1], ps[Last(ps[Nth(r)][1])][2]>>]

RECURSIVE parse(_, _)
RECURSIVE parseItems(_, _, _, _)
RECURSIVE parsePairs(_, _, _, _)

\* codec.LIST from its loop on: `for _ in range(size): value, start =
\* codec.parse(buf, start); out.append(value)` and then the END looked for.
\* out holds the values read so far and n turns are left; the turns are
\* taken four at a time, each from where the one before it ended.
parseItems(buf, start, n, out) ==
    LET a1 == parse(buf, start)
        a2 == parse(buf, a1.off)
        a3 == parse(buf, a2.off)
        a4 == parse(buf, a3.off)
    IN  CASE n <= 0 -> Closed(buf, start, VList(out))
          [] ~a1.ok -> a1
          [] n = 1 -> Closed(buf, a1.off, VList(out \o <<a1.val>>))
          [] ~a2.ok -> a2
          [] n = 2 -> Closed(buf, a2.off, VList(out \o <<a1.val, a2.val>>))
          [] ~a3.ok -> a3
          [] n = 3 -> Closed(buf, a3.off, VList(out \o <<a1.val, a2.val, a3.val>>))
          [] ~a4.ok -> a4
          [] OTHER -> parseItems(buf, a4.off, n - 4,
                                 out \o <<a1.val, a2.val, a3.val, a4.val>>)

\* codec.RECORD from its loop on: `for _ in range(size): key, start = ...;
\* value, start = ...; out[key] = value` and then the END looked for.  out
\* holds the <<key, value>> pairs read so far and n turns are left; the
\* turns are taken three at a time.
parsePairs(buf, start, n, out) ==
    LET Unhashable(k) == ~Hashable(k.val, buf.kind)
        k1 == parse(buf, start)
        v1 == parse(buf, k1.off)
        k2 == parse(buf, v1.off)
        v2 == parse(buf, k2.off)
        k3 == parse(buf, v2.off)
        v3 == parse(buf, k3.off)
    IN  CASE n <= 0 -> Closed(buf, start, VDict(FromPairs(out)))
          [] ~k1.ok -> k1
          [] ~v1.ok -> v1
          [] Unhashable(k1) -> Raise("TypeError")
          [] n = 1 -> Closed(buf, v1.off, VDict(FromPairs(out \o << <<k1.val, v1.val>> >>)))
          [] ~k2.ok -> k2
          [] ~v2.ok -> v2
          [] Unhashable(k2) -> Raise("TypeError")
          [] n = 2 -> Closed(buf, v2.off,
                             VDict(FromPairs(out \o << <<k1.val, v1.val>>,
                                                       <<k2.val, v2.val>> >>)))
          [] ~k3.ok -> k3
          [] ~v3.ok -> v3
          [] Unhashable(k3) -> Raise("TypeError")
          [] OTHER -> parsePairs(buf, v3.off, n - 3,
                                 out \o << <<k1.val, v1.val>>, <<k2.val, v2.val>>,
                                           <<k3.val, v3.val>> >>)

\* codec.INT: int() of the text up to END.
ParsedInt(h) ==
    IF h.ok THEN [ok |-> TRUE, val |-> VInt(h.size), off |-> h.end + 1] ELSE h

\* codec.FLOAT: float.fromhex() of the text up to END.
ParsedFloat(buf, offset, end) ==
    LET text == PySlice(buf.data, offset + 1, end)
        f    == FloatFromHex(text)
    IN  CASE end < 0 -> Raise("ValueError")
          [] ~IsAscii(text) -> Raise("UnicodeDecodeError")
          [] ~f.ok -> f
          [] OTHER -> [ok |-> TRUE, val |-> VFloat(f.v), off |-> end + 1]

\* codec.BYTES: the size bytes after the header, then END.
ParsedBytes(buf, h) ==
    IF h.ok
    THEN Closed(buf, h.end + 1 + h.size,
                VBytes(PySlice(buf.data, h.end + 1, h.end + 1 + h.size)))
    ELSE h

\* codec.STRING: the size bytes after the header decoded, then END.
ParsedStr(buf, h) ==
    LET u == Utf8Decode(PySlice(buf.data, h.end + 1, h.end + 1 + h.size))
    IN  CASE ~h.ok -> h
          [] ~u.ok -> u
          [] OTHER -> Closed(buf, h.end + 1 + h.size, <<"str", u.v>>)

\* codec.TAG: the tag name up to END, the arguments, cls(**args), then END.
Tagged(buf, offset, end) ==
    LET tag  == PySlice(buf.data, offset + 1, end)
        args == parse(buf, end + 1)
        out  == Construct(CHOOSE c \in codec_tags : S(c) = tag, args.val)
    IN  CASE end < 0 -> Raise("ValueError")
          [] ~IsAscii(tag) -> Raise("UnicodeDecodeError")
          [] ~\E c \in codec_tags : S(c) = tag -> Raise("KeyError")
          [] ~args.ok -> args
          [] ~out.ok -> out
          [] OTHER -> Closed(buf, args.off, out.v)

\* codec.parse(buf, offset): [ok, val, off], or [ok |-> FALSE, err] where
\* the source raises.  For a first byte that is no type byte the message of
\* the exception is built with peek.encode('ascii'), and peek is an int.
parse(buf, offset) ==
    CASE offset >= Len(buf.data) -> Raise("IndexError")
      [] buf.data[offset + 1] = codec_TRUE ->
         [ok |-> TRUE, val |-> VTrue, off |-> offset + 1]
      [] buf.data[offset + 1] = codec_FALSE ->
         [ok |-> TRUE, val |-> VFalse, off |-> offset + 1]
      [] buf.data[offset + 1] = codec_NULL ->
         [ok |-> TRUE, val |-> VNone, off |-> offset + 1]
      [] buf.data[offset + 1] = codec_INT -> ParsedInt(Header(buf, offset))
      [] buf.data[offset + 1] = codec_FLOAT ->
         ParsedFloat(buf, offset, PyIndex(buf.data, codec_END, offset + 1))
      [] buf.data[offset + 1] = codec_BYTES -> ParsedBytes(buf, Header(buf, offset))
      [] buf.data[offset + 1] = codec_STRING -> ParsedStr(buf, Header(buf, offset))
      [] buf.data[offset + 1] \in {codec_LIST, codec_RECORD} /\ ~Header(buf, offset).ok ->
         Header(buf, offset)
      [] buf.data[offset + 1] = codec_LIST ->
         parseItems(buf, Header(buf, offset).end + 1, Header(buf, offset).size, <<>>)
      [] buf.data[offset + 1] = codec_RECORD ->
         parsePairs(buf, Header(buf, offset).end + 1, Header(buf, offset).size, <<>>)
      [] buf.data[offset + 1] = codec_TAG ->
         Tagged(buf, offset, PyIndex(buf.data, codec_END, offset + 1))
      [] OTHER -> Raise("AttributeError")

\* buf.append(b) / buf.extend(bs) on a bytearray.
Extend(buf, bs) == ByteArray(buf.data \o bs)

\* str(n).encode('ascii')
Count(n) == S(IntToStr(n))

\* codec.BYTES and codec.STRING: the type byte, the size of the body, END,
\* the body, END.
DumpSized(buf, tag, body) ==
    [ok |-> TRUE,
     buf |-> Extend(buf, <<tag>> \o Count(Len(body)) \o <<codec_END>> \o body
                         \o <<codec_END>>)]

RECURSIVE dump(_, _)
RECURSIVE dumpAll(_, _)

\* `for x in obj: codec.dump(x, buf)` and the `buf.append(codec.END)` after
\* it: the turns of the loop are taken six at a time, each on the bytearray
\* the one before it returned.
dumpAll(xs, buf) ==
    LET Close(b) == [ok |-> TRUE, buf |-> Extend(b, <<codec_END>>)]
        b1 == dump(xs[1], buf)
        b2 == dump(xs[2], b1.buf)
        b3 == dump(xs[3], b2.buf)
        b4 == dump(xs[4], b3.buf)
        b5 == dump(xs[5], b4.buf)
        b6 == dump(xs[6], b5.buf)
    IN  CASE xs = <<>> -> Close(buf)
          [] ~b1.ok -> b1
          [] Len(xs) = 1 -> Close(b1.buf)
          [] ~b2.ok -> b2
          [] Len(xs) = 2 -> Close(b2.buf)
          [] ~b3.ok -> b3
          [] Len(xs) = 3 -> Close(b3.buf)
          [] ~b4.ok -> b4
          [] Len(xs) = 4 -> Close(b4.buf)
          [] ~b5.ok -> b5
          [] Len(xs) = 5 -> Close(b5.buf)
          [] ~b6.ok -> b6
          [] OTHER -> dumpAll(SubSeq(xs, 7, Len(xs)), b6.buf)

\* The objects one of the branches of codec.dump takes; for any other the
\* final else raises Exception('bad obj') with buf untouched.
Dumpable(obj) ==
    \/ obj \in {VTrue, VFalse, VNone}
    \/ Kind(obj) \in {"int", "float", "bytes", "str", "list", "tuple", "dict"}
    \/ Kind(obj) = "obj" /\ obj[2] \in codec_tags

\* codec.dump(obj, buf): [ok, buf], the bytearray it returns, or
\* [ok |-> FALSE, err] where the source raises.  Every branch starts with
\* buf.append, which a bytes object does not have.
dump(obj, buf) ==
    CASE ~Dumpable(obj) -> Raise("bad obj")
      [] buf.kind # "bytearray" -> Raise("AttributeError")
      [] obj = VTrue -> [ok |-> TRUE, buf |-> Extend(buf, <<codec_TRUE>>)]
      [] obj = VFalse -> [ok |-> TRUE, buf |-> Extend(buf, <<codec_FALSE>>)]
      [] obj = VNone -> [ok |-> TRUE, buf |-> Extend(buf, <<codec_NULL>>)]
      [] Kind(obj) = "int" ->
         [ok |-> TRUE,
          buf |-> Extend(buf, <<codec_INT>> \o Count(obj[2]) \o <<codec_END>>)]
      [] Kind(obj) = "float" ->
         [ok |-> TRUE,
          buf |-> Extend(buf, <<codec_INT>> \o S(FloatHex(obj[2])) \o <<codec_END>>)]
      [] Kind(obj) = "bytes" -> DumpSized(buf, codec_BYTES, obj[2])
      [] Kind(obj) = "str" -> DumpSized(buf, codec_STRING, Utf8Encode(obj[2]))
      [] Kind(obj) \in {"list", "tuple"} ->
         dumpAll(obj[2], Extend(buf, <<codec_LIST>> \o Count(Len(obj[2])) \o <<codec_END>>))
      [] Kind(obj) = "dict" ->
         dumpAll(Flatten(obj[2]),
                 Extend(buf, <<codec_RECORD>> \o Count(Len(obj[2])) \o <<codec_END>>))
      [] Kind(obj) = "obj" ->
         dumpAll(<<VDict(obj[3])>>,
                 Extend(buf, <<codec_TAG>> \o S(obj[2]) \o <<codec_END>>))

(***************************************************************************)
(* The argument binder: try_parse and parse_args.                          *)
(*                                                                         *)
(* Names and argv tokens are strings.  An optional text (a flag's value,   *)
(* argspec.tail) is <<>> for None and <<text>> otherwise.  An Argspec is   *)
(* the record parse_argspec builds; argtypes is a sequence of              *)
(* <<name, type>> pairs.                                                   *)
(***************************************************************************)
StartsWith(s, p) == Len(s) >= Len(p) /\ SubSeq(s, 1, Len(p)) = p
EndsWith(s, p)   == Len(s) >= Len(p) /\ SubSeq(s, Len(s) - Len(p) + 1, Len(s)) = p

\* s.find(c) + 1 for a one-character c: 0 when c is not in s.
Find(s, c) ==
    IF \E i \in 1..Len(s) : Ch(s, i) = c
    THEN CHOOSE i \in 1..Len(s) : Ch(s, i) = c /\ \A j \in 1..(i - 1) : Ch(s, j) # c
    ELSE 0

RECURSIVE Join(_, _)
\* sep.join(xs)
Join(sep, xs) ==
    IF xs = <<>> THEN ""
    ELSE IF Len(xs) = 1 THEN xs[1]
    ELSE xs[1] \o sep \o Join(sep, Tail(xs))

\* repr(s) of a string without quotes in it.
Repr(s) == "'" \o s \o "'"

\* '{}'.format(arg) of an optional text.
Fmt(arg) == IF arg = <<>> THEN "None" ELSE arg[1]

BadArg(msg) == [exc |-> "BadArg", msg |-> msg]

\* int(arg) succeeding, the test str(i) == arg left out.
IntParses(s) == PyInt(S(s)).ok

\* Whether str(int(s)) == s: s is the canonical decimal text of an integer.
IntRoundTrips(s) ==
    LET Same(n) == n.ok /\ IntToStr(n.v) = s IN Same(PyInt(S(s)))

AllDigits(s) == Len(s) > 0 /\ \A i \in 1..Len(s) : IsDigit(Ord(Ch(s, i)))

\* Whether str(float(s)) == s, for texts of at most 15 characters without an
\* exponent: the canonical decimal text of a float, or inf, -inf, nan.
FloatCanonical(ip, fp) ==
    /\ AllDigits(ip) /\ AllDigits(fp)
    /\ (ip = "0" \/ ~StartsWith(ip, "0"))
    /\ (fp = "0" \/ ~EndsWith(fp, "0"))
    /\ (ip = "0" /\ fp # "0" => ~StartsWith(fp, "0000"))

FloatSplit(t, dot) ==
    dot > 0 /\ FloatCanonical(SubSeq(t, 1, dot - 1), SubSeq(t, dot + 1, Len(t)))

FloatUnsigned(t) == FloatSplit(t, Find(t, "."))

FloatRoundTrips(s) ==
    \/ s \in {"inf", "-inf", "nan"}
    \/ /\ Len(s) <= 15
       /\ FloatUnsigned(IF StartsWith(s, "-") THEN SubSeq(s, 2, Len(s)) ELSE s)

\* argspec.argtypes.get(name): "" stands for None.
ArgType(argspec, name) ==
    IF DictHas(argspec.argtypes, name) THEN DictGet(argspec.argtypes, name) ELSE ""

\* wire.FileHandle(arg, mode)
NewFileHandle(arg, mode) ==
    VObj("FileHandle", << <<VStr("name"), IF arg = <<>> THEN VNone ELSE VStr(arg[1])>>,
                          <<VStr("mode"), VStr(mode)>>, <<VStr("buf"), VNone>> >>)

\* The value try_parse returns.
Returned(v) == [exc |-> "", v |-> v]

\* The text of an optional text, None when there is none.
OptText(arg) == IF arg = <<>> THEN VNone ELSE VStr(arg[1])

\* Whether str(int(arg)) == arg, and int(arg).
IsIntText(arg) == arg # <<>> /\ IntRoundTrips(arg[1])
IntOf(arg) == VInt(PyInt(S(arg[1])).v)

\* Whether str(float(arg)) == arg.
IsFloatText(arg) == arg # <<>> /\ FloatRoundTrips(arg[1])

\* try_parse(name, arg, argtype), arg an optional text: [exc |-> "", v] or
\* the BadArg raised.
try_parse(name, arg, argtype) ==
    CASE argtype \in {"str", "string"} -> Returned(OptText(arg))
      [] argtype = "infile" -> Returned(NewFileHandle(arg, "read"))
      [] argtype = "outfile" -> Returned(NewFileHandle(arg, "write"))
      [] argtype \in {"int", "integer"} /\ IsIntText(arg) -> Returned(IntOf(arg))
      [] argtype \in {"int", "integer"} ->
         BadArg(name \o " expects an integer, got " \o Fmt(arg))
      [] argtype \in {"float", "num", "number"} /\ IsFloatText(arg) ->
         Returned(VFloat(arg[1]))
      [] argtype \in {"float", "num", "number"} ->
         BadArg(name \o " expects an floating-point number, got " \o Fmt(arg))
      [] argtype \in {"bool", "boolean"} /\ arg = <<"true">> -> Returned(VTrue)
      [] argtype \in {"bool", "boolean"} /\ arg = <<"false">> -> Returned(VFalse)
      [] argtype \in {"bool", "boolean"} ->
         BadArg(name \o " expects either true or false, got " \o Fmt(arg))
      [] (argtype = "" \/ argtype = "scalar") /\ IsIntText(arg) -> Returned(IntOf(arg))
      [] (argtype = "" \/ argtype = "scalar") /\ IsFloatText(arg) ->
         Returned(VFloat(arg[1]))
      [] argtype = "" \/ argtype = "scalar" -> Returned(OptText(arg))
      [] OTHER ->
         BadArg("Don't know how to parse option " \o name \o ", of unknown type "
                \o argtype)

\* The locals of parse_args as one record: flags (key -> the values of its
\* occurrences, in order), options, args, the variable `value` (<<>> while
\* unbound, else <<its value>>), and the exception raised, if any.
\* flags.pop(name)
DictPop(d, k) == SelectSeq(d, LAMBDA kv : kv[1] # k)

Fail(st, e) == [st EXCEPT !.exc = e.exc, !.msg = e.msg]

\* args[name] = default
Default(st, name, default) == [st EXCEPT !.args = DictSet(st.args, name, default)]

\* args[name] = default, followed by flags.pop(name)
Popped(st, name, default) ==
    [st EXCEPT !.args = DictSet(st.args, name, default), !.flags = DictPop(st.flags, name)]

\* args[name] = try_parse(...), r being what try_parse returned or raised.
Store(st, name, r) ==
    IF r.exc # "" THEN Fail(st, r) ELSE [st EXCEPT !.args = DictSet(st.args, name, r.v)]

\* args[name] = [try_parse(...) for ...], r being what ParseEach gave.
StoreList(st, name, r) ==
    IF r.exc # "" THEN Fail(st, r)
    ELSE [st EXCEPT !.args = DictSet(st.args, name, VList(r.vs))]

RECURSIVE Partition(_, _)
\* The `for arg in argv` loop of parse_args.
Partition(argv, st) ==
    IF argv = <<>> THEN st
    ELSE LET arg == argv[1]
         IN  IF StartsWith(arg, "--")
             THEN LET rest  == SubSeq(arg, 3, Len(arg))
                      eq    == Find(rest, "=")
                      key   == IF eq > 0 THEN SubSeq(rest, 1, eq - 1) ELSE rest
                      value == IF eq > 0 THEN <<SubSeq(rest, eq + 1, Len(rest))>> ELSE <<>>
                      old   == IF DictHas(st.flags, key) THEN DictGet(st.flags, key) ELSE <<>>
                  IN  Partition(Tail(argv),
                                [st EXCEPT !.flags = DictSet(st.flags, key, Append(old, value)),
                                           !.value = <<value>>])
             ELSE Partition(Tail(argv), [st EXCEPT !.options = Append(st.options, arg)])

\* A variant of the switch step that binds True for any occurrence, its
\* value unread and its repetitions unnoticed.
SwitchStepAnyOccurrence(argspec, name, st) ==
    IF ~DictHas(st.flags, name)
    THEN [st EXCEPT !.args = DictSet(st.args, name, VFalse)]
    ELSE [st EXCEPT !.args = DictSet(st.args, name, VTrue),
                    !.flags = DictPop(st.flags, name)]

\* The body of `for name in argspec.switches`.
SwitchStep(argspec, name, st) ==
    LET Given(values, st2) ==
            IF values = <<>>
            THEN Fail(st2, BadArg("value given for switch flag " \o name))
            ELSE IF Len(values) > 1
            THEN Fail(st2, BadArg("duplicate switch flag for: " \o name))
            ELSE IF values[1] = <<>> THEN Default(st2, name, VTrue)
            ELSE Store(st2, name, try_parse(name, values[1], "boolean"))
    IN  IF ~DictHas(st.flags, name) THEN Default(st, name, VFalse)
        ELSE Given(DictGet(st.flags, name), Popped(st, name, VFalse))

RECURSIVE ForSwitches(_, _, _)
\* The loop `for name in argspec.switches:`, left when its body raises.
ForSwitches(argspec, names, st) ==
    IF names = <<>> \/ st.exc # "" THEN st
    ELSE ForSwitches(argspec, Tail(names), SwitchStep(argspec, names[1], st))

\* The body of `for name in argspec.flags`: the value parsed is the
\* variable `value`, which the argv loop left at the value of the last
\* `--` token.
FlagStep(argspec, name, st) ==
    LET Given(values, st2) ==
            IF values = <<>> \/ values[1] = <<>>
            THEN Fail(st2, BadArg("missing value for option flag " \o name))
            ELSE IF Len(values) > 1
            THEN Fail(st2, BadArg("duplicate option flag for: " \o name))
            ELSE Store(st2, name, try_parse(name, st.value[1], ArgType(argspec, name)))
    IN  IF ~DictHas(st.flags, name) THEN Default(st, name, VNone)
        ELSE Given(DictGet(st.flags, name), Popped(st, name, VNone))

RECURSIVE ForFlags(_, _, _)
\* The loop `for name in argspec.flags:`, left when its body raises.
ForFlags(argspec, names, st) ==
    IF names = <<>> \/ st.exc # "" THEN st
    ELSE ForFlags(argspec, Tail(names), FlagStep(argspec, names[1], st))

RECURSIVE ParseEach(_, _, _)
\* try_parse of each of vals in turn: [exc |-> "", vs] or the first BadArg.
ParseEach(name, vals, argtype) ==
    IF vals = <<>> THEN [exc |-> "", vs |-> <<>>]
    ELSE LET Cons(h, t) ==
                 IF h.exc # "" THEN h
                 ELSE IF t.exc # "" THEN t
                 ELSE [exc |-> "", vs |-> <<h.v>> \o t.vs]
         IN  Cons(try_parse(name, vals[1], argtype),
                  ParseEach(name, Tail(vals), argtype))

\* A variant of the list step that keeps only the last occurrence.
ListStepLastOnly(argspec, name, st) ==
    LET Bind1(last, st2, r) ==
            IF r.exc # "" THEN Fail(st2, r)
            ELSE [st2 EXCEPT !.args = DictSet(st2.args, name, VList(<<r.v>>)),
                             !.value = <<last>>]
        Given(last, st2) ==
            IF last = <<>>
            THEN Fail(st2, BadArg("missing value for list flag " \o name))
            ELSE Bind1(last, st2, try_parse(name, last, ArgType(argspec, name)))
        Last(values) == values[Len(values)]
    IN  IF ~DictHas(st.flags, name) THEN Default(st, name, VList(<<>>))
        ELSE Given(Last(DictGet(st.flags, name)), Popped(st, name, VList(<<>>)))

\* The body of `for name in argspec.lists`; its inner loop is
\* `for value in values`, which rebinds `value`.
ListStep(argspec, name, st) ==
    LET Each(values, st2, r) ==
            IF r.exc # "" THEN Fail(st2, r)
            ELSE [st2 EXCEPT !.args = DictSet(st2.args, name, VList(r.vs)),
                             !.value = <<values[Len(values)]>>]
        Given(values, st2) ==
            IF values = <<>> \/ \E i \in 1..Len(values) : values[i] = <<>>
            THEN Fail(st2, BadArg("missing value for list flag " \o name))
            ELSE Each(values, st2, ParseEach(name, values, ArgType(argspec, name)))
    IN  IF ~DictHas(st.flags, name) THEN Default(st, name, VList(<<>>))
        ELSE Given(DictGet(st.flags, name), Popped(st, name, VList(<<>>)))

RECURSIVE ForLists(_, _, _)
\* The loop `for name in argspec.lists:`, left when its body raises.
ForLists(argspec, names, st) ==
    IF names = <<>> \/ st.exc # "" THEN st
    ELSE ForLists(argspec, Tail(names), ListStep(argspec, names[1], st))

\* The mode decision: named_args.
NamedArgs(argspec, flags) ==
    /\ flags # <<>>
    /\ \/ \E i \in 1..Len(argspec.positional) : DictHas(flags, argspec.positional[i])
       \/ \E i \in 1..Len(argspec.optional) : DictHas(flags, argspec.optional[i])
       \/ argspec.tail # <<>> /\ DictHas(flags, argspec.tail[1])

\* Named mode, the body of `for name in argspec.positional`: a missing name
\* reaches `raise BadArg(...)`, and BadArg is no global of the module.
NamedPositionalStep(argspec, name, st) ==
    LET Given(values, st2) ==
            IF values = <<>> \/ values[1] = <<>>
            THEN Fail(st2, BadArg("missing value for named option " \o name))
            ELSE IF Len(values) > 1
            THEN Fail(st2, BadArg("duplicate named option for: " \o name))
            ELSE Store(st2, name, try_parse(name, st.value[1], ArgType(argspec, name)))
    IN  IF ~DictHas(st.flags, name)
        THEN Fail(Default(st, name, VNone),
                  [exc |-> "NameError", msg |-> "name 'BadArg' is not defined"])
        ELSE Given(DictGet(st.flags, name), Popped(st, name, VNone))

RECURSIVE ForNamedPositional(_, _, _)
\* The loop `for name in argspec.positional:` of named mode, left when its body raises.
ForNamedPositional(argspec, names, st) ==
    IF names = <<>> \/ st.exc # "" THEN st
    ELSE ForNamedPositional(argspec, Tail(names), NamedPositionalStep(argspec, names[1], st))

\* Named mode, the body of `for name in argspec.optional`: the call
\* try_parse(value, argtype) lacks an argument.
NamedOptionalStep(argspec, name, st) ==
    LET Given(values, st2) ==
            IF values = <<>> \/ values[1] = <<>>
            THEN Fail(st2, BadArg("missing value for named option " \o name))
            ELSE IF Len(values) > 1
            THEN Fail(st2, BadArg("duplicate named option for: " \o name))
            ELSE Fail(st2, [exc |-> "TypeError",
                            msg |-> "try_parse() missing 1 required positional argument: 'argtype'"])
    IN  IF ~DictHas(st.flags, name) THEN Default(st, name, VNone)
        ELSE Given(DictGet(st.flags, name), Popped(st, name, VNone))

RECURSIVE ForNamedOptional(_, _, _)
\* The loop `for name in argspec.optional:` of named mode, left when its body raises.
ForNamedOptional(argspec, names, st) ==
    IF names = <<>> \/ st.exc # "" THEN st
    ELSE ForNamedOptional(argspec, Tail(names), NamedOptionalStep(argspec, names[1], st))

\* Named mode, the tail: bound only when it occurs among the flags, each
\* occurrence to try_parse of the variable `value`.
NamedTail(argspec, st) ==
    LET Given(name, values, st2) ==
            IF values = <<>> \/ \E i \in 1..Len(values) : values[i] = <<>>
            THEN Fail(st2, BadArg("missing value for named option  " \o name))
            ELSE StoreList(st2, name,
                           ParseEach(name, [i \in 1..Len(values) |-> st.value[1]],
                                     ArgType(argspec, name)))
        Tail1(name) == Given(name, DictGet(st.flags, name), Popped(st, name, VList(<<>>)))
    IN  IF st.exc # "" \/ argspec.tail = <<>> \/ argspec.tail[1] = ""
           \/ ~DictHas(st.flags, argspec.tail[1])
        THEN st
        ELSE Tail1(argspec.tail[1])

\* The `if named_args:` branch.
BindNamed(argspec, st) ==
    NamedTail(argspec,
        ForNamedOptional(argspec, argspec.optional,
            ForNamedPositional(argspec, argspec.positional, st)))

\* A variant of the positional step that pops the last option, not the
\* first.
PositionalStepFromEnd(argspec, name, st) ==
    IF st.options = <<>> THEN Fail(st, BadArg("missing option: " \o name))
    ELSE Store([st EXCEPT !.options = SubSeq(st.options, 1, Len(st.options) - 1)], name,
               try_parse(name, <<st.options[Len(st.options)]>>, ArgType(argspec, name)))

\* Positional mode, the body of `for name in argspec.positional`.
PositionalStep(argspec, name, st) ==
    IF st.options = <<>> THEN Fail(st, BadArg("missing option: " \o name))
    ELSE Store([st EXCEPT !.options = Tail(st.options)], name,
               try_parse(name, <<st.options[1]>>, ArgType(argspec, name)))

RECURSIVE ForPositional(_, _, _)
\* The loop `for name in argspec.positional:` of positional mode, left when its body raises.
ForPositional(argspec, names, st) ==
    IF names = <<>> \/ st.exc # "" THEN st
    ELSE ForPositional(argspec, Tail(names), PositionalStep(argspec, names[1], st))

\* Positional mode, the body of `for name in argspec.optional`.
OptionalStep(argspec, name, st) ==
    IF st.options = <<>> THEN Default(st, name, VNone)
    ELSE PositionalStep(argspec, name, st)

RECURSIVE ForOptional(_, _, _)
\* The loop `for name in argspec.optional:` of positional mode, left when its body raises.
ForOptional(argspec, names, st) ==
    IF names = <<>> \/ st.exc # "" THEN st
    ELSE ForOptional(argspec, Tail(names), OptionalStep(argspec, names[1], st))

\* Positional mode, `if argspec.tail:`.
PositionalTail(argspec, st) ==
    LET Rest(name, r) ==
            IF r.exc # "" THEN Fail(st, r)
            ELSE [st EXCEPT !.args = DictSet(st.args, name, VList(r.vs)),
                            !.options = <<>>]
        Tail1(name) ==
            Rest(name, ParseEach(name, [i \in 1..Len(st.options) |-> <<st.options[i]>>],
                                 ArgType(argspec, name)))
    IN  IF st.exc # "" \/ argspec.tail = <<>> \/ argspec.tail[1] = "" THEN st
        ELSE Tail1(argspec.tail[1])

\* The `else:` branch of `if named_args:`.
BindPositional(argspec, st) ==
    IF st.flags # <<>>
    THEN Fail(st, BadArg("unknown option flags: --" \o Join("", DictKeys(st.flags))))
    ELSE PositionalTail(argspec,
            ForOptional(argspec, argspec.optional,
                ForPositional(argspec, argspec.positional, st)))

\* The checks after the two branches.
Residual(named_args, st) ==
    IF st.exc # "" THEN st
    ELSE IF st.options # <<>> /\ named_args
    THEN Fail(st, BadArg("unnamed options given " \o Repr(Join(" ", st.options))))
    ELSE IF st.options # <<>>
    THEN Fail(st, BadArg("unrecognised option: " \o Repr(Join(" ", st.options))))
    ELSE st

\* `if named_args: ... else: ...` and the checks that follow, named_args
\* being the value of that variable.
BindEither(argspec, named_args, st) ==
    Residual(named_args,
             IF st.exc # "" THEN st
             ELSE IF named_args THEN BindNamed(argspec, st)
             ELSE BindPositional(argspec, st))

\* parse_args from the computation of named_args on.
BindGiven(argspec, st) == BindEither(argspec, NamedArgs(argspec, st.flags), st)

\* parse_args(argspec, argv, environ): [exc |-> "", args] when it returns
\* args, else [exc, msg], the exception raised.
parse_args(argspec, argv, environ) ==
    LET Result(st) == IF st.exc = "" THEN [exc |-> "", args |-> st.args]
                      ELSE [exc |-> st.exc, msg |-> st.msg]
    IN  Result(BindGiven(argspec,
            ForLists(argspec, argspec.lists,
                ForFlags(argspec, argspec.flags,
                    ForSwitches(argspec, argspec.switches,
                        Partition(argv, [flags |-> <<>>, options |-> <<>>,
                                         args |-> <<>>, value |-> <<>>,
                                         exc |-> "", msg |-> ""]))))))

(***************************************************************************)
(* Each specification below runs one part of the program; the variables of *)
(* the other parts stay idle.                                              *)
(***************************************************************************)
CodecIdle == /\ cpc = "idle" /\ cval = VNone /\ cbuf = VNone /\ cres = VNone

BinderIdle == /\ bpc = "idle" /\ bspec = VNone /\ bargv = <<>> /\ bres = VNone

PipeIdle == /\ client = VNone /\ server = VNone /\ pipe = VNone

RunIdle == /\ run = VNone /\ disk = VNone

(***************************************************************************)
(* The codec on its own: a value is drawn, dumped into an empty bytearray  *)
(* and the bytearray parsed back from offset 0.                            *)
(***************************************************************************)
MaxLen   == 2     \* longest list or record drawn
MaxDepth == 2     \* deepest nesting drawn

Atoms ==
    {VTrue, VFalse, VNone}
    \cup {VInt(n) : n \in {-12, -1, 0, 7, 10, 123}}
    \cup {VFloat(f) : f \in Floats}
    \cup {VBytes(b) : b \in {<<>>, <<107>>, <<97, 127>>, <<255, 0>>}}
    \cup {<<"str", cp>> : cp \in {<<>>, S("a"), S("hi"), <<104, 233>>}}

\* What the drawn containers hold.
Elems == {VTrue, VNone, VInt(7), VStr("a"), VBytes(<<107>>), VFloat("1.5")}
Keys  == {VStr("a"), VStr("b"), VInt(7), VBytes(<<107>>)}
DictElems == {VNone, VInt(7), VStr("a")}

SeqsUpTo(E, n) == UNION {[1..m -> E] : m \in 0..n}

Lists == {VList(xs) : xs \in SeqsUpTo(Elems, MaxLen)}

Dicts ==
    {VDict(kvs) : kvs \in {d \in SeqsUpTo(Keys \X DictElems, MaxLen) :
                              \A i, j \in 1..Len(d) : i # j => d[i][1] # d[j][1]}}

FileHandle(name, mode, buf) ==
    VObj("FileHandle", << <<VStr("name"), name>>, <<VStr("mode"), mode>>,
                          <<VStr("buf"), buf>> >>)

Response(exit_code, value, file_handles) ==
    VObj("Response", << <<VStr("exit_code"), exit_code>>, <<VStr("value"), value>>,
                        <<VStr("file_handles"), file_handles>> >>)

Request(action, path, argv) ==
    VObj("Request", << <<VStr("action"), action>>, <<VStr("path"), path>>,
                       <<VStr("argv"), argv>> >>)

Objs ==
    {FileHandle(VStr("a"), VStr(m), b) : m \in {"read", "write"},
                                         b \in {VNone, VBytes(<<107>>)}}
    \cup {VObj("BadArg", <<>>)}
    \cup {Request(VStr("render"), VNone, VNone)}

RECURSIVE Nest(_)
Nest(d) ==
    IF d = 0 THEN Elems
    ELSE UNION {{VList(<<x>>), VList(<<x, VInt(7)>>), VDict(<< <<VStr("a"), x>> >>),
                 Response(VInt(0), x, VDict(<<>>))} : x \in Nest(d - 1)}

Universe == Atoms \cup Lists \cup Dicts \cup Objs \cup UNION {Nest(d) : d \in 1..MaxDepth}

CodecInit ==
    /\ cpc = "start"
    /\ cval \in Universe
    /\ cbuf = VNone
    /\ cres = VNone
    /\ BinderIdle
    /\ PipeIdle
    /\ RunIdle

\* buf = codec.dump(v, bytearray())
Dump ==
    /\ cpc = "start"
    /\ cbuf' = dump(cval, ByteArray(<<>>))
    /\ cpc' = "dumped"
    /\ UNCHANGED <<cval, cres, bpc, bspec, bargv, bres, client, server, pipe, run, disk>>

\* codec.parse(buf, 0)
Parse ==
    /\ cpc = "dumped"
    /\ cbuf.ok
    /\ cres' = parse(cbuf.buf, 0)
    /\ cpc' = "parsed"
    /\ UNCHANGED <<cval, cbuf, bpc, bspec, bargv, bres, client, server, pipe, run, disk>>

CodecNext == Dump \/ Parse

SpecCodec == CodecInit /\ [][CodecNext]_vars

(***************************************************************************)
(* The decoder on its own: a buffer is drawn, either the dump of a value   *)
(* or such a dump with one damage done to it, and parsed from offset 0.    *)
(***************************************************************************)
\* The bytes codec.dump emits for v.
Encoded(v) == dump(v, ByteArray(<<>>)).buf.data

\* What codec.dump writes between the header and the closing END of v, in
\* the order it writes it: the items of a list, the keys and values of a
\* dict, the __dict__ of a registered object.
Parts(v) ==
    CASE Kind(v) \in {"list", "tuple"} -> v[2]
      [] Kind(v) = "dict" -> Flatten(v[2])
      [] Kind(v) = "obj"  -> <<VDict(v[3])>>
      [] OTHER -> <<>>

RECURSIVE Terminators(_)
RECURSIVE TerminatorsAll(_, _)

\* The positions in Encoded(v) of the END bytes that close a region: the
\* one after a count, a length or a tag name, and the one that closes v.
Terminators(v) ==
    LET Within(data, head) ==
            {head, Len(data)} \cup TerminatorsAll(Parts(v), head)
        Of(data) ==
            CASE Kind(v) \in {"bool", "none"} -> {}
              [] Kind(v) \in {"int", "float"} -> {Len(data)}
              [] OTHER -> Within(data, PyIndex(data, codec_END, 0) + 1)
    IN  Of(Encoded(v))

\* The same for values written one after the other from position off on.
TerminatorsAll(xs, off) ==
    IF xs = <<>> THEN {}
    ELSE {off + t : t \in Terminators(xs[1])}
             \cup TerminatorsAll(Tail(xs), off + Len(Encoded(xs[1])))

\* The values whose dumps are drawn: those of the codec that codec.dump
\* accepts.
DecodeValues == {v \in Universe : dump(v, ByteArray(<<>>)).ok}

\* The bytes that are put in the place of a type byte.
NoTypeBytes == {codec_END, 120}

\* The damages that can be done to the dump of v: none, the leading byte
\* replaced by a byte that is no type byte, the first letter of the tag
\* name of a registered object replaced by `X`, one terminator taken out.
Damages(v) ==
    {<<"none">>}
        \cup {<<"lead", b>> : b \in NoTypeBytes}
        \cup (IF Kind(v) = "obj" THEN {<<"tag">>} ELSE {})
        \cup {<<"del", i>> : i \in Terminators(v)}

Damaged(data, d) ==
    CASE d[1] = "none" -> data
      [] d[1] = "lead" -> <<d[2]>> \o Tail(data)
      [] d[1] = "tag"  -> <<data[1], 88>> \o SubSeq(data, 3, Len(data))
      [] d[1] = "del"  -> SubSeq(data, 1, d[2] - 1) \o SubSeq(data, d[2] + 1, Len(data))

DecodeInit ==
    /\ cpc = "dumped"
    /\ \E v \in DecodeValues : \E d \in Damages(v) :
          /\ cval = [value |-> v, damage |-> d]
          /\ cbuf = [ok |-> TRUE, buf |-> ByteArray(Damaged(Encoded(v), d))]
    /\ cres = VNone
    /\ BinderIdle
    /\ PipeIdle
    /\ RunIdle

SpecDecode == DecodeInit /\ [][Parse]_vars

(***************************************************************************)
(* The binder on its own: an Argspec and an argv are drawn and bound.      *)
(***************************************************************************)
MaxArgv == 4     \* longest argv drawn

Argspec(switches, flags, lists, positional, optional, tail, argtypes) ==
    [switches |-> switches, flags |-> flags, lists |-> lists,
     positional |-> positional, optional |-> optional, tail |-> tail,
     argtypes |-> argtypes, descriptions |-> <<>>]

\* The Argspecs of these grammars, each with the tokens its argv is drawn from.
\*   "a b [c] [t...]"
\*   "--verbose? --quiet? a"
\*   "--f --g:int [c]"
\*   "--tag... --n:int... [t...]"
\*   "a [t...]"
Scenarios ==
    << [argspec |-> Argspec(<<>>, <<>>, <<>>, <<"a", "b">>, <<"c">>, <<"t">>, <<>>),
        tokens  |-> {"1", "2", "3", "4", "x", "--a=1", "--zzz=9"}],
       [argspec |-> Argspec(<<"verbose", "quiet">>, <<>>, <<>>, <<"a">>, <<>>, <<>>, <<>>),
        tokens  |-> {"--verbose", "--verbose=true", "--verbose=false", "--verbose=x",
                     "--quiet", "1", "--zzz"}],
       [argspec |-> Argspec(<<>>, <<"f", "g">>, <<>>, <<>>, <<"c">>, <<>>,
                            << <<"g", "int">> >>),
        tokens  |-> {"--f=1", "--f", "--f=a=b", "--g=2", "--g=x", "1", "--c=3"}],
       [argspec |-> Argspec(<<>>, <<>>, <<"tag", "n">>, <<>>, <<>>, <<"t">>,
                            << <<"n", "int">> >>),
        tokens  |-> {"--tag=x", "--tag=y", "--tag", "--n=1", "--n=z", "--t=4", "q"}],
       [argspec |-> Argspec(<<>>, <<>>, <<>>, <<"a">>, <<>>, <<"t">>, <<>>),
        tokens  |-> {"--a=1", "--a", "--t=5", "--zzz=9", "1", "2"}] >>

BinderInit ==
    /\ bpc = "start"
    /\ \E i \in 1..Len(Scenarios) :
          /\ bspec = Scenarios[i].argspec
          /\ bargv \in SeqsUpTo(Scenarios[i].tokens, MaxArgv)
    /\ bres = VNone
    /\ CodecIdle
    /\ PipeIdle
    /\ RunIdle

\* args = parse_args(argspec, argv, environ)
Bind ==
    /\ bpc = "start"
    /\ bres' = parse_args(bspec, bargv, <<>>)
    /\ bpc' = "done"
    /\ UNCHANGED <<bspec, bargv, cpc, cval, cbuf, cres, client, server, pipe, run, disk>>

BinderNext == Bind

SpecBinder == BinderInit /\ [][BinderNext]_vars

(***************************************************************************)
(* The command tree: wire.Command (the rendered form) and cli.Command.     *)
(*                                                                         *)
(* A cli.Command is a record: name, prefix, subcommands (in insertion      *)
(* order), run_fn (the name of its executable, "" for None), short (<<>>   *)
(* for None), argspec (<<>> for None) and nargs.  Texts built by format    *)
(* and join are code point sequences.                                      *)
(***************************************************************************)
Ok(v) == [ok |-> TRUE, val |-> v]

\* bool(v)
Truthy(v) ==
    CASE Kind(v) = "none" -> FALSE
      [] Kind(v) = "bool" -> v[2]
      [] Kind(v) = "int" -> v[2] # 0
      [] Kind(v) \in {"str", "bytes", "list", "tuple", "dict"} -> v[2] # <<>>
      [] OTHER -> TRUE

\* getattr(obj, name) of a decoded object.
Attr(obj, name) == DictGet(obj[3], VStr(name))

\* sep.join(xs) on code point sequences.
JoinText(sep, xs) ==
    Flat([i \in 1..(2 * Len(xs) - 1) |-> IF i % 2 = 1 THEN xs[(i + 1) \div 2] ELSE sep])

\* The texts of a list of str, and the keys of a dict of str.
Texts(list) == [i \in 1..Len(list[2]) |-> list[2][i][2]]
KeyTexts(dict) == [i \in 1..Len(dict[2]) |-> dict[2][i][1][2]]

\* " ".join(full_name), full_name being prefix + [name].
FullName(self) ==
    JoinText(S(" "), Append(Texts(Attr(self, "prefix")), Attr(self, "name")[2]))

\* One usage item for each name of xs.
UsageEach(pre, xs, mid, post) ==
    [i \in 1..Len(xs) |-> S(pre) \o xs[i] \o
                          (IF mid = "" THEN <<>> ELSE S(mid) \o xs[i]) \o S(post)]

\* The list `args` of usage().
UsageArgs(argspec) ==
    UsageEach("[--", Texts(Attr(argspec, "switches")), "", "]")
    \o UsageEach("[--", Texts(Attr(argspec, "flags")), "=<", ">]")
    \o UsageEach("[--", Texts(Attr(argspec, "lists")), "=<", ">...]")
    \o UsageEach("<", Texts(Attr(argspec, "positional")), "", ">")
    \o UsageEach("[<", Texts(Attr(argspec, "optional")), "", ">]")
    \o (IF Truthy(Attr(argspec, "tail"))
        THEN <<S("[<") \o Attr(argspec, "tail")[2] \o S(">...]")>>
        ELSE <<>>)

\* The list `output` of usage().
UsageLines(self, argspec) ==
    (IF Truthy(argspec)
     THEN <<S("usage: ") \o FullName(self) \o S(" ")
            \o JoinText(S(" "), UsageArgs(argspec))>>
     ELSE <<>>)
    \o (IF Truthy(Attr(self, "subcommands"))
        THEN <<S("usage: ") \o FullName(self) \o S(" [help] <")
               \o JoinText(S("|"), KeyTexts(Attr(self, "subcommands")))
               \o S("> [--help]")>>
        ELSE <<>>)

\* wire.Command.usage()
usage(self) == JoinText(<<10>>, UsageLines(self, Attr(self, "argspec")))

\* `self.short or ""`
OrEmpty(v) == IF Truthy(v) THEN v[2] ELSE <<>>

\* The `options:` lines of manual().
ManualOptions(descs) ==
    IF Truthy(descs)
    THEN <<S("options:")>>
         \o [i \in 1..Len(descs[2]) |->
                <<9>> \o descs[2][i][1][2] \o <<9>> \o descs[2][i][2][2]]
         \o << <<>> >>
    ELSE <<>>

\* The `commands:` lines of manual().
ManualCommands(subs) ==
    IF Truthy(subs)
    THEN <<S("commands:")>>
         \o [i \in 1..Len(subs[2]) |->
                <<9>> \o Attr(subs[2][i][2], "name")[2] \o <<9>>
                \o OrEmpty(Attr(subs[2][i][2], "short"))]
         \o << <<>> >>
    ELSE <<>>

\* The list `output` of manual().
ManualLines(self, short, long, argspec) ==
    <<FullName(self) \o (IF Truthy(short) THEN S(" - ") ELSE <<>>) \o OrEmpty(short),
      <<>>, usage(self), <<>> >>
    \o (IF Truthy(long) THEN <<S("description:"), long[2], <<>> >> ELSE <<>>)
    \o (IF Truthy(argspec) THEN ManualOptions(Attr(argspec, "descriptions")) ELSE <<>>)
    \o ManualCommands(Attr(self, "subcommands"))

\* wire.Command.manual()
manual(self) ==
    JoinText(<<10>>, ManualLines(self, Attr(self, "short"), Attr(self, "long"),
                                 Attr(self, "argspec")))

\* The wire.Argspec object of an Argspec.
ArgspecObject(a) ==
    LET Names(xs) == VList([i \in 1..Len(xs) |-> VStr(xs[i])])
        Pairs(d)  == VDict([i \in 1..Len(d) |-> <<VStr(d[i][1]), VStr(d[i][2])>>])
    IN  VObj("Argspec",
             << <<VStr("switches"), Names(a.switches)>>, <<VStr("flags"), Names(a.flags)>>,
                <<VStr("lists"), Names(a.lists)>>, <<VStr("positional"), Names(a.positional)>>,
                <<VStr("optional"), Names(a.optional)>>,
                <<VStr("tail"), IF a.tail = <<>> THEN VNone ELSE VStr(a.tail[1])>>,
                <<VStr("argtypes"), Pairs(a.argtypes)>>,
                <<VStr("descriptions"), Pairs(a.descriptions)>> >>)

\* The executables bound with @cmd.run(...): their parameters and __doc__.
Executables ==
    [echo  |-> [params |-> <<"a">>, doc |-> <<"Echo.">>],
     keyed |-> [params |-> <<"a">>, doc |-> <<>>],
     pair  |-> [params |-> <<"x", "y">>, doc |-> <<>>],
     save  |-> [params |-> <<"out", "a">>, doc |-> <<>>],
     tee   |-> [params |-> <<"outs", "src">>, doc |-> <<>>],
     rest  |-> [params |-> <<"a", "t">>, doc |-> <<>>]]

\* self.run_fn(**args): echo returns its argument, keyed a record that
\* holds it under a byte-string key, pair the list of its two arguments,
\* save its argument a, and tee what src.read() returns.  None of them
\* writes to a stream.
RunFn(fn, args) ==
    LET params == Executables[fn].params
        Arg(n) == DictGet(args, VStr(n))
    IN  IF \/ \E i \in 1..Len(args) : Kind(args[i][1]) # "str"
           \/ {args[i][1] : i \in 1..Len(args)} # {VStr(params[i]) : i \in 1..Len(params)}
        THEN Raise("TypeError")
        ELSE CASE fn = "echo"  -> Ok(Arg("a"))
               [] fn = "keyed" -> Ok(VDict(<< <<VBytes(S("k")), Arg("a")>> >>))
               [] fn = "pair"  -> Ok(VList(<<Arg("x"), Arg("y")>>))
               [] fn = "save"  -> Ok(Arg("a"))
               [] fn = "rest"  -> Ok(Arg("a"))
               [] fn = "tee"   -> IF Arg("src")[1] = "BytesIO" THEN Ok(VBytes(Arg("src")[2]))
                                  ELSE Raise("AttributeError")

\* cli.Command(name, short), after the builder methods have run.
Command(name, prefix, short, subcommands, run_fn, argspec, nargs) ==
    [name |-> name, prefix |-> prefix, short |-> short, subcommands |-> subcommands,
     run_fn |-> run_fn, argspec |-> argspec, nargs |-> nargs]

\* The tree served: prog { echo "a", keyed "a", sub { pair "x y" } }.
Root ==
    LET One(a)  == <<Argspec(<<>>, <<>>, <<>>, a, <<>>, <<>>, <<>>)>>
    IN  Command("prog", <<>>, <<"demo">>,
            << Command("echo", <<"prog">>, <<"echo">>, <<>>, "echo", One(<<"a">>), 1),
               Command("keyed", <<"prog">>, <<"key">>, <<>>, "keyed", One(<<"a">>), 1),
               Command("sub", <<"prog">>, <<>>,
                   << Command("pair", <<"prog", "sub">>, <<"pair">>, <<>>, "pair",
                              One(<<"x", "y">>), 2) >>,
                   "", <<>>, 0) >>,
            "", <<>>, 0)

RECURSIVE render(_)
\* cli.Command.render(): self.long is None, so long is the executable's
\* __doc__ when there is one.
render(self) ==
    LET OptStr(o) == IF o = <<>> THEN VNone ELSE VStr(o[1])
    IN  VObj("Command",
             << <<VStr("prefix"), VList([i \in 1..Len(self.prefix) |-> VStr(self.prefix[i])])>>,
                <<VStr("name"), VStr(self.name)>>,
                <<VStr("subcommands"),
                  VDict([i \in 1..Len(self.subcommands) |->
                            <<VStr(self.subcommands[i].name), render(self.subcommands[i])>>])>>,
                <<VStr("short"), OptStr(self.short)>>,
                <<VStr("long"),
                  IF self.run_fn # "" THEN OptStr(Executables[self.run_fn].doc) ELSE VNone>>,
                <<VStr("argspec"),
                  IF self.argspec = <<>> THEN VNone ELSE ArgspecObject(self.argspec[1])>> >>)

\* An io.BytesIO holding data.
BytesIO(data) == <<"BytesIO", data>>

IsFileHandle(v) == Kind(v) = "obj" /\ v[2] = "FileHandle"

\* What cli.Command.invoke passes for one value: a BytesIO for a FileHandle
\* (<<>> when its mode is neither read nor write), the value otherwise.
InvokeValue(value) ==
    IF ~IsFileHandle(value) THEN Ok(<<value>>)
    ELSE IF Attr(value, "mode") = VStr("read")
    THEN IF Kind(Attr(value, "buf")) = "bytes"
         THEN Ok(<<BytesIO(Attr(value, "buf")[2])>>)
         ELSE Raise("TypeError")
    ELSE IF Attr(value, "mode") = VStr("write") THEN Ok(<<BytesIO(<<>>)>>)
    ELSE Ok(<<>>)

RECURSIVE InvokeValues(_)
\* The list `out` built from a list argument.
InvokeValues(values) ==
    LET Cons(h, t) == IF ~h.ok THEN h ELSE IF ~t.ok THEN t ELSE Ok(h.val \o t.val)
    IN  IF values = <<>> THEN Ok(<<>>)
        ELSE Cons(InvokeValue(values[1]), InvokeValues(Tail(values)))

IsWriteHandle(v) == IsFileHandle(v) /\ Attr(v, "mode") = VStr("write")

\* What invoke passes for the value of one name: <<the value>>, or <<>>
\* for a FileHandle whose mode is neither read nor write.
InvokeArg(value) ==
    LET Listed(out) == IF ~out.ok THEN out ELSE Ok(<<VList(out.val)>>)
    IN  IF Kind(value) = "list" THEN Listed(InvokeValues(value[2]))
        ELSE InvokeValue(value)

RECURSIVE InvokeArgs(_)
\* The loop `for name, values in argv.items()`: the dict args, or the
\* exception raised.
InvokeArgs(items) ==
    LET Cons(name, r, t) ==
            IF ~r.ok THEN r
            ELSE IF ~t.ok THEN t
            ELSE Ok((IF r.val = <<>> THEN <<>> ELSE << <<name, r.val[1]>> >>) \o t.val)
    IN  IF items = <<>> THEN Ok(<<>>)
        ELSE Cons(items[1][1], InvokeArg(items[1][2]), InvokeArgs(Tail(items)))

\* output_fhs: for each name given write handles, what was written to each.
OutputFhs(items) ==
    LET Writes(v) == IF Kind(v) = "list" THEN SelectSeq(v[2], IsWriteHandle)
                     ELSE IF IsWriteHandle(v) THEN <<v>> ELSE <<>>
        Of(named) ==
            VDict([i \in 1..Len(named) |->
                     <<named[i][1],
                       VList([j \in 1..Len(Writes(named[i][2])) |-> VBytes(<<>>)])>>])
    IN  Of(SelectSeq(items, LAMBDA kv : Writes(kv[2]) # <<>>))

\* invoke from the call of run_fn on.
Invoked(argv, result) ==
    IF ~result.ok THEN result
    ELSE Ok(Response(VInt(0), result.val, OutputFhs(argv[2])))

\* cli.Command.invoke(argv)
invoke(self, argv) ==
    LET Run(args) == IF ~args.ok THEN args
                     ELSE Invoked(argv, RunFn(self.run_fn, args.val))
    IN  IF Kind(argv) # "dict" THEN Raise("AttributeError")
        ELSE Run(InvokeArgs(argv[2]))

\* len(v), -1 where it raises TypeError.
PyLen(v) ==
    IF Kind(v) \in {"str", "bytes", "list", "tuple", "dict"} THEN Len(v[2]) ELSE -1

RECURSIVE call(_, _, _)
\* cli.Command.call(path, argv).  cli.Command has no attribute `help`, and
\* `self.render.usage()` asks a bound method for an attribute.
call(self, path, argv) ==
    LET first == IF Kind(path) = "list" /\ path[2] # <<>> THEN <<path[2][1]>> ELSE <<>>
        subs  == SelectSeq(self.subcommands,
                           LAMBDA c : first # <<>> /\ VStr(c.name) = first[1])
    IN  IF first # <<>> /\ first[1] = VStr("help") THEN Raise("AttributeError")
        ELSE IF first # <<>> /\ Kind(first[1]) \in {"list", "dict"} THEN Raise("TypeError")
        ELSE IF subs # <<>> THEN call(subs[1], VList(Tail(path[2])), argv)
        ELSE IF self.run_fn # ""
        THEN IF PyLen(argv) < 0 THEN Raise("TypeError")
             ELSE IF PyLen(argv) = self.nargs THEN invoke(self, argv)
             ELSE Ok(Response(VInt(-1), VStr("bad options"), VTuple(<<>>)))
        ELSE IF PyLen(argv) < 0 THEN Raise("TypeError")
        ELSE IF PyLen(argv) = 0
        THEN Ok(Response(VInt(0), <<"str", manual(render(self))>>, VTuple(<<>>)))
        ELSE Raise("AttributeError")

(***************************************************************************)
(* cli.FakeRemoteCommand: the tree called in-process, arguments and        *)
(* results passed through the codec.                                       *)
(***************************************************************************)
\* obj, _ = codec.parse(codec.dump(v, bytearray()), 0)
ThroughParsed(r) == IF ~r.ok THEN r ELSE Ok(r.val)

ThroughDumped(buf) == IF ~buf.ok THEN buf ELSE ThroughParsed(parse(buf.buf, 0))

Through(v) == ThroughDumped(dump(v, ByteArray(<<>>)))

\* FakeRemoteCommand.render()
FakeRemoteCommand_render(root) == Through(render(root))

\* FakeRemoteCommand.call from `result = self.root.call(path, argv)` on.
FakeReturned(result) == IF ~result.ok THEN result ELSE Through(result.val)

\* FakeRemoteCommand.call from the two codec.parse calls on.
FakeParsed(root, p, a) ==
    IF ~p.ok THEN p
    ELSE IF ~a.ok THEN a
    ELSE FakeReturned(call(root, p.val, a.val))

\* FakeRemoteCommand.call after the two codec.dump calls.
FakeDumped(root, pbuf, abuf) ==
    IF ~pbuf.ok THEN pbuf
    ELSE IF ~abuf.ok THEN abuf
    ELSE FakeParsed(root, parse(pbuf.buf, 0), parse(abuf.buf, 0))

\* FakeRemoteCommand.call(path, argv)
FakeRemoteCommand_call(root, path, argv) ==
    FakeDumped(root, dump(path, ByteArray(<<>>)), dump(argv, ByteArray(<<>>)))

(***************************************************************************)
(* The pipe transport: a parent process calling a cli.PipeClient, and the  *)
(* child process it spawned running cli.offer_pipe(Root), joined by the    *)
(* child's stdin and stdout.  The parent issues up to MaxRequests          *)
(* requests, one after the other; an exception a request raises ends the   *)
(* parent, as it does in cli.open_pipe.  Beside each request the parent    *)
(* notes what cli.FakeRemoteCommand returns for it.                        *)
(***************************************************************************)
MaxRequests == 2     \* requests one parent issues

Paths ==
    {VList(<<>>), VList(<<VStr("echo")>>), VList(<<VStr("keyed")>>), VList(<<VStr("sub")>>),
     VList(<<VStr("sub"), VStr("pair")>>), VList(<<VStr("help")>>)}

Argvs ==
    {VDict(<<>>), VDict(<< <<VStr("a"), VInt(1)>> >>),
     VDict(<< <<VStr("x"), VInt(1)>>, <<VStr("y"), VInt(2)>> >>)}

\* What PipeClient.render and PipeClient.call put in a wire.Request.
Requests ==
    {Request(VStr("render"), VNone, VNone)}
        \cup {Request(VStr("call"), path, argv) : path \in Paths, argv \in Argvs}

\* stream.readline(): the bytes up to and including the first newline, or
\* all that is left when the writer has gone.
ReadLine(stream) ==
    LET At(nl) ==
            IF nl >= 0
            THEN [line |-> SubSeq(stream, 1, nl + 1),
                  rest |-> SubSeq(stream, nl + 2, Len(stream))]
            ELSE [line |-> stream, rest |-> <<>>]
    IN  At(PyIndex(stream, 10, 0))

HasLine(stream) == PyIndex(stream, 10, 0) >= 0

\* stream.read(size)
Read(stream, size) ==
    LET Take(n) == [buf |-> SubSeq(stream, 1, n), rest |-> SubSeq(stream, n + 1, Len(stream))]
    IN  Take(IF size < 0 THEN Len(stream) ELSE Min(size, Len(stream)))

\* b"%d\n" % (len(buf))
Frame(buf) == S(IntToStr(Len(buf.data))) \o <<10>>

\* The child has left offer_pipe: it returned, or an exception ended it.
ServerGone == server.pc \in {"returned", "crashed"}

PipeInit ==
    /\ client = [pc |-> "idle", req |-> VNone, local |-> VNone, buf |-> ByteArray(<<>>),
                 size |-> 0, result |-> VNone, sent |-> <<>>, received |-> <<>>]
    /\ server = [pc |-> "readline", size |-> 0, buf |-> Bytes(<<>>), response |-> <<>>,
                 out |-> ByteArray(<<>>), exc |-> "", read |-> <<>>, written |-> <<>>]
    /\ pipe = [request |-> <<>>, response |-> <<>>, closed |-> FALSE]
    /\ CodecIdle
    /\ BinderIdle
    /\ RunIdle

Rest == <<cpc, cval, cbuf, cres, bpc, bspec, bargv, bres, run, disk>>

\* The parent calls root.render() or root.call(path, argv).
Issue ==
    /\ client.pc = "idle"
    /\ Len(client.sent) < MaxRequests
    /\ \E req \in Requests : client' = [client EXCEPT !.pc = "local", !.req = req]
    /\ UNCHANGED <<server, pipe, Rest>>

\* The same call on a cli.FakeRemoteCommand(Root).
Local ==
    /\ client.pc = "local"
    /\ client' = [client EXCEPT
            !.pc = "dump",
            !.local = IF Attr(client.req, "action") = VStr("render")
                      THEN FakeRemoteCommand_render(Root)
                      ELSE FakeRemoteCommand_call(Root, Attr(client.req, "path"),
                                                  Attr(client.req, "argv"))]
    /\ UNCHANGED <<server, pipe, Rest>>

\* PipeClient: buf = codec.dump(obj, bytearray()); self.request.write(b"%d\n" % len(buf))
ClientWriteSize ==
    LET Write(buf) ==
            IF ~buf.ok
            THEN /\ client' = [client EXCEPT !.pc = "raised", !.result = buf]
                 /\ UNCHANGED pipe
            ELSE /\ client' = [client EXCEPT !.pc = "write", !.buf = buf.buf]
                 /\ pipe' = [pipe EXCEPT !.request = @ \o Frame(buf.buf)]
    IN  /\ client.pc = "dump"
        /\ Write(dump(client.req, ByteArray(<<>>)))
        /\ UNCHANGED <<server, Rest>>

\* PipeClient: self.request.write(buf); self.request.flush()
ClientWriteBuf ==
    /\ client.pc = "write"
    /\ IF ServerGone
       THEN /\ client' = [client EXCEPT !.pc = "raised", !.result = Raise("BrokenPipeError")]
            /\ UNCHANGED pipe
       ELSE /\ client' = [client EXCEPT !.pc = "readline", !.sent = Append(@, client.req)]
            /\ pipe' = [pipe EXCEPT !.request = @ \o client.buf.data]
    /\ UNCHANGED <<server, Rest>>

\* PipeClient: size = int(self.response.readline().strip())
ClientReadLine ==
    LET Sized(size) == IF size.ok THEN [client EXCEPT !.pc = "read", !.size = size.v]
                       ELSE [client EXCEPT !.pc = "raised", !.result = size]
        Line(r) == /\ pipe' = [pipe EXCEPT !.response = r.rest]
                   /\ client' = Sized(PyInt(RStrip(LStrip(r.line))))
    IN  /\ client.pc = "readline"
        /\ HasLine(pipe.response) \/ ServerGone
        /\ Line(ReadLine(pipe.response))
        /\ UNCHANGED <<server, Rest>>

\* PipeClient: the parent after `obj, _ = codec.parse(buf, 0)`.
ClientParsed(obj) ==
    IF obj.ok
    THEN [client EXCEPT !.pc = "idle", !.result = Ok(obj.val),
                        !.received = Append(@, obj.val)]
    ELSE [client EXCEPT !.pc = "raised", !.result = obj]

\* PipeClient: buf = self.response.read(size); obj, _ = codec.parse(buf, 0)
ClientRead ==
    LET Took(r) == /\ pipe' = [pipe EXCEPT !.response = r.rest]
                   /\ client' = ClientParsed(parse(Bytes(r.buf), 0))
    IN  /\ client.pc = "read"
        /\ (client.size >= 0 /\ Len(pipe.response) >= client.size) \/ ServerGone
        /\ Took(Read(pipe.response, client.size))
        /\ UNCHANGED <<server, Rest>>

\* cli.open_pipe: p.stdin.close(), or the parent ending on an exception.
ClientClose ==
    /\ client.pc \in {"idle", "raised"}
    /\ ~pipe.closed
    /\ pipe' = [pipe EXCEPT !.closed = TRUE]
    /\ client' = [client EXCEPT !.pc = IF @ = "idle" THEN "closed" ELSE @]
    /\ UNCHANGED <<server, Rest>>

Crash(e) == [server EXCEPT !.pc = "crashed", !.exc = e]

\* offer_pipe: line = sys.stdin.buffer.readline(); if not line: break;
\* size = int(line.decode('ascii').strip())
ServerReadLine ==
    LET Sized(size) == IF ~size.ok THEN Crash(size.err)
                       ELSE [server EXCEPT !.pc = "read", !.size = size.v]
        Line(r) == /\ pipe' = [pipe EXCEPT !.request = r.rest]
                   /\ server' = IF r.line = <<>> THEN [server EXCEPT !.pc = "returned"]
                                ELSE IF ~IsAscii(r.line) THEN Crash("UnicodeDecodeError")
                                ELSE Sized(PyInt(RStrip(LStrip(r.line))))
    IN  /\ server.pc = "readline"
        /\ HasLine(pipe.request) \/ pipe.closed
        /\ Line(ReadLine(pipe.request))
        /\ UNCHANGED <<client, Rest>>

\* offer_pipe: buf = sys.stdin.buffer.read(size)
ServerRead ==
    LET Took(r) == /\ pipe' = [pipe EXCEPT !.request = r.rest]
                   /\ server' = [server EXCEPT !.pc = "serve", !.buf = Bytes(r.buf)]
    IN  /\ server.pc = "read"
        /\ (server.size >= 0 /\ Len(pipe.request) >= server.size) \/ pipe.closed
        /\ Took(Read(pipe.request, server.size))
        /\ UNCHANGED <<client, Rest>>

\* The response offer_pipe holds after its if/elif on obj.action: <<>>
\* while the variable is unbound.
Dispatch(root, obj, response) ==
    LET Called(r) == IF ~r.ok THEN r ELSE Ok(<<r.val>>)
    IN  IF Attr(obj, "action") = VStr("render") THEN Ok(<<render(root)>>)
        ELSE IF Attr(obj, "action") = VStr("call")
        THEN Called(call(root, Attr(obj, "path"), Attr(obj, "argv")))
        ELSE Ok(response)

\* offer_pipe: the child after buf = codec.dump(response, bytearray()).
ServeDumped(obj, response, out) ==
    IF ~out.ok
    THEN [Crash(out.err) EXCEPT !.read = Append(@, obj), !.response = response]
    ELSE [server EXCEPT !.pc = "size", !.response = response, !.out = out.buf,
                        !.read = Append(@, obj)]

\* offer_pipe: the child after the if/elif on obj.action.
ServeDispatched(obj, r) ==
    IF ~r.ok THEN [Crash(r.err) EXCEPT !.read = Append(@, obj)]
    ELSE IF r.val = <<>>
    THEN [Crash("UnboundLocalError") EXCEPT !.read = Append(@, obj)]
    ELSE ServeDumped(obj, r.val, dump(r.val[1], ByteArray(<<>>)))

\* offer_pipe: the child after obj, _ = codec.parse(buf, 0).
ServeParsed(obj) ==
    IF ~obj.ok THEN Crash(obj.err)
    ELSE IF ~(Kind(obj.val) = "obj" /\ DictHas(obj.val[3], VStr("action")))
    THEN Crash("AttributeError")
    ELSE ServeDispatched(obj.val, Dispatch(Root, obj.val, server.response))

\* offer_pipe: obj, _ = codec.parse(buf, 0); the if/elif on obj.action;
\* buf = codec.dump(response, bytearray())
Serve ==
    /\ server.pc = "serve"
    /\ server' = ServeParsed(parse(server.buf, 0))
    /\ UNCHANGED <<client, pipe, Rest>>

\* offer_pipe: sys.stdout.buffer.write(b"%d\n" % (len(buf)))
ServerWriteSize ==
    /\ server.pc = "size"
    /\ pipe' = [pipe EXCEPT !.response = @ \o Frame(server.out)]
    /\ server' = [server EXCEPT !.pc = "write"]
    /\ UNCHANGED <<client, Rest>>

\* offer_pipe: sys.stdout.buffer.write(buf); sys.stdout.buffer.flush()
ServerWriteBuf ==
    /\ server.pc = "write"
    /\ pipe' = [pipe EXCEPT !.response = @ \o server.out.data]
    /\ server' = [server EXCEPT !.pc = "readline",
                                !.written = Append(@, server.response[1])]
    /\ UNCHANGED <<client, Rest>>

PipeNext ==
    \/ Issue
    \/ Local
    \/ ClientWriteSize
    \/ ClientWriteBuf
    \/ ClientReadLine
    \/ ClientRead
    \/ ClientClose
    \/ ServerReadLine
    \/ ServerRead
    \/ Serve
    \/ ServerWriteSize
    \/ ServerWriteBuf

SpecPipe == PipeInit /\ [][PipeNext]_vars

(***************************************************************************)
(* cli.offer_pipe on its own: the child finds on its stdin what some       *)
(* parent wrote, framed requests and blank lines, and the parent closes    *)
(* its write side at some moment.                                          *)
(***************************************************************************)
MaxChunks == 2     \* framed requests or blank lines on stdin

\* A request as PipeClient writes it: the size line, then the buffer.
Framed(buf) == Frame(buf) \o buf.data

\* A Request PipeClient never writes but another parent can: its action is
\* neither `render` nor `call`.
OtherRequests == {Request(VStr("help"), VList(<<>>), VDict(<<>>))}

\* What stdin is made of: a framed request, or a line that holds only its
\* newline.
Chunks ==
    {Framed(dump(req, ByteArray(<<>>)).buf) : req \in Requests \cup OtherRequests}
        \cup {<<10>>}

OfferInit ==
    /\ client = [pc |-> "idle", req |-> VNone, local |-> VNone, buf |-> ByteArray(<<>>),
                 size |-> 0, result |-> VNone, sent |-> <<>>, received |-> <<>>]
    /\ server = [pc |-> "readline", size |-> 0, buf |-> Bytes(<<>>), response |-> <<>>,
                 out |-> ByteArray(<<>>), exc |-> "", read |-> <<>>, written |-> <<>>]
    /\ \E chunks \in SeqsUpTo(Chunks, MaxChunks) :
          pipe = [request |-> Flat(chunks), response |-> <<>>, closed |-> FALSE]
    /\ CodecIdle
    /\ BinderIdle
    /\ RunIdle

OfferNext ==
    \/ ClientClose
    \/ ServerReadLine
    \/ ServerRead
    \/ Serve
    \/ ServerWriteSize
    \/ ServerWriteBuf

SpecOffer == OfferInit /\ [][OfferNext]_vars

(***************************************************************************)
(* wire.Command: the methods of the rendered tree, as cli.run calls them   *)
(* on the object root.render() returned.  Tokens, paths and messages are   *)
(* strings; the texts held by the decoded object are code point sequences. *)
(***************************************************************************)
RECURSIVE Text(_)
\* The str of a sequence of printable ASCII code points.
Text(cps) == IF cps = <<>> THEN "" ELSE Ch(Ascii, cps[1] - 31) \o Text(Tail(cps))

\* The Argspec the binder is handed: the attributes of the decoded
\* wire.Argspec object.
ArgspecOf(obj) ==
    LET Names(list) == [i \in 1..Len(list[2]) |-> Text(list[2][i][2])]
        Pairs(dict) == [i \in 1..Len(dict[2]) |->
                           <<Text(dict[2][i][1][2]), Text(dict[2][i][2][2])>>]
    IN  [switches     |-> Names(Attr(obj, "switches")),
         flags        |-> Names(Attr(obj, "flags")),
         lists        |-> Names(Attr(obj, "lists")),
         positional   |-> Names(Attr(obj, "positional")),
         optional     |-> Names(Attr(obj, "optional")),
         tail         |-> IF Kind(Attr(obj, "tail")) = "str"
                          THEN <<Text(Attr(obj, "tail")[2])>> ELSE <<>>,
         argtypes     |-> Pairs(Attr(obj, "argtypes")),
         descriptions |-> Pairs(Attr(obj, "descriptions"))]

\* name in self.subcommands, and self.subcommands[name]
HasSub(self, name) == DictHas(Attr(self, "subcommands")[2], VStr(name))
Sub(self, name) == DictGet(Attr(self, "subcommands")[2], VStr(name))

\* cli.Action(mode, command, argv, errors)
Action(mode, path, argv, errors) ==
    [mode |-> mode, path |-> path, argv |-> argv, errors |-> errors]

\* The dict {'usage': b}, and argv.get('usage') of such a dict (None: <<>>).
UsageFlag(b) == << <<"usage", b>> >>
GetUsage(argv) ==
    IF \E i \in 1..Len(argv) : argv[i][1] = "usage"
    THEN (CHOOSE kv \in {argv[i] : i \in 1..Len(argv)} : kv[1] = "usage")[2]
    ELSE FALSE

\* wire.BadArg.action(path), and what else parse_args raised going on up.
Recovered(path, r) ==
    IF r.exc = "" THEN Ok(Action("call", path, r.args, <<>>))
    ELSE IF r.exc = "BadArg" THEN Ok(Action("error", path, UsageFlag(TRUE), <<r.msg>>))
    ELSE Raise(r.exc)

\* wire.Command.parse_args on a node without an Argspec.
ResolveGroup(self, path, argv) ==
    IF argv # <<>> /\ argv[1] # ""
    THEN IF argv[1] = "help" THEN Action("help", path, UsageFlag(FALSE), <<>>)
         ELSE IF \E i \in 1..Len(argv) : argv[i] = "--help"
         THEN Action("help", path, UsageFlag(TRUE), <<>>)
         ELSE IF Truthy(Attr(self, "subcommands"))
         THEN Action("error", path, UsageFlag(TRUE), <<"unknown command: " \o argv[1]>>)
         ELSE Action("error", path, UsageFlag(TRUE), <<"unknown option: " \o argv[1]>>)
    ELSE Action("help", path, UsageFlag(FALSE), <<>>)

\* A variant of the resolution on a node with an Argspec that runs the
\* binder first and looks for `--help` only when the binder accepted argv.
ResolveBoundBinderFirst(self, path, argv, environ) ==
    LET Accepted(r) ==
            IF r.ok /\ r.val.mode = "call" /\ \E i \in 1..Len(argv) : argv[i] = "--help"
            THEN Ok(Action("help", path, UsageFlag(TRUE), <<>>))
            ELSE r
    IN  Accepted(Recovered(path, parse_args(ArgspecOf(Attr(self, "argspec")), argv, environ)))

\* wire.Command.parse_args on a node with an Argspec, lines 617 to 623.
ResolveBound(self, path, argv, environ) ==
    IF \E i \in 1..Len(argv) : argv[i] = "--help"
    THEN Ok(Action("help", path, UsageFlag(TRUE), <<>>))
    ELSE Recovered(path, parse_args(ArgspecOf(Attr(self, "argspec")), argv, environ))

RECURSIVE Command_parse_args(_, _, _, _)
\* wire.Command.parse_args(path, argv, environ): the Action, or the
\* exception that escapes.
Command_parse_args(self, path, argv, environ) ==
    IF argv # <<>> /\ HasSub(self, argv[1])
    THEN Command_parse_args(Sub(self, argv[1]), Append(path, argv[1]), Tail(argv), environ)
    ELSE IF ~Truthy(Attr(self, "argspec")) THEN Ok(ResolveGroup(self, path, argv))
    ELSE ResolveBound(self, path, argv, environ)

RECURSIVE Command_help(_, _, _)
\* wire.Command.help(path, usage=usage): the text.
Command_help(self, path, use) ==
    IF path # <<>> /\ HasSub(self, path[1])
    THEN Command_help(Sub(self, path[1]), Tail(path), use)
    ELSE IF use THEN usage(self) ELSE manual(self)

\* wire.Command.version()
Command_version(self) == S("<None>")

\* wire.Command.complete_flag(prefix): self.argspec is None on a node
\* without an Argspec.
complete_flag(self, prefix) ==
    LET Matching(names, post) ==
            [i \in 1..Len(SelectSeq(names, LAMBDA x : StartsWith(x, prefix))) |->
                "--" \o SelectSeq(names, LAMBDA x : StartsWith(x, prefix))[i] \o post]
        Of(argspec) ==
            Ok(Matching(argspec.switches, "") \o Matching(argspec.flags, "=")
               \o Matching(argspec.lists, "="))
    IN  IF Find(prefix, "=") > 0 THEN Ok(<<>>)
        ELSE IF ~Truthy(Attr(self, "argspec")) THEN Raise("AttributeError")
        ELSE Of(ArgspecOf(Attr(self, "argspec")))

\* wire.Command.complete from `if text.startswith('--')` on.
CompleteText(self, text) ==
    IF StartsWith(text, "--") THEN complete_flag(self, SubSeq(text, 3, Len(text)))
    ELSE IF StartsWith(text, "-") THEN complete_flag(self, SubSeq(text, 2, Len(text)))
    ELSE Ok(<<>>)

RECURSIVE complete(_, _, _)
\* wire.Command.complete(path, text)
complete(self, path, text) ==
    LET Named(names) == IF names # <<>> THEN Ok(names) ELSE CompleteText(self, text)
    IN  IF path # <<>> /\ HasSub(self, path[1])
        THEN complete(Sub(self, path[1]), Tail(path), text)
        ELSE IF path = <<>>
        THEN Named(SelectSeq([i \in 1..Len(Attr(self, "subcommands")[2]) |->
                                 Text(Attr(self, "subcommands")[2][i][1][2])],
                             LAMBDA n : StartsWith(n, text)))
        ELSE CompleteText(self, text)

(***************************************************************************)
(* cli.run(root, argv, environ), root being a cli.FakeRemoteCommand as in  *)
(* cli.main.  The files of the working directory are `disk`: a file name   *)
(* is mapped to <<>> while there is no such file and to <<its bytes>>      *)
(* once there is one.                                                      *)
(***************************************************************************)
MaxRunArgv == 3     \* longest argv cli.run is given

\* The tree run: prog { pair "x y", save "--out:outfile a",
\*                      tee "--outs:outfile... src:infile", nop { } }.
App ==
    Command("prog", <<>>, <<"demo">>,
        << Command("pair", <<"prog">>, <<"pair">>, <<>>, "pair",
                   <<Argspec(<<>>, <<>>, <<>>, <<"x", "y">>, <<>>, <<>>, <<>>)>>, 2),
           Command("save", <<"prog">>, <<"save">>, <<>>, "save",
                   <<Argspec(<<>>, <<"out">>, <<>>, <<"a">>, <<>>, <<>>,
                             << <<"out", "outfile">> >>)>>, 2),
           Command("tee", <<"prog">>, <<"tee">>, <<>>, "tee",
                   <<Argspec(<<>>, <<>>, <<"outs">>, <<"src">>, <<>>, <<>>,
                             << <<"outs", "outfile">>, <<"src", "infile">> >>)>>, 2),
           Command("nop", <<"prog">>, <<>>, <<>>, "", <<>>, 0) >>,
        "", <<>>, 0)

\* What root.render() returns, root being cli.FakeRemoteCommand(App).
Rendered == FakeRemoteCommand_render(App)

RunTokens ==
    {"help", "he", "--help", "--version", "pair", "save", "tee", "nop",
     "1", "1.5", "g", "--out=f", "--outs=f", "--x=1"}

\* environ: <<>>, or <<COMP_LINE, COMP_POINT>> when both are set.
CompEnvs ==
    {<<"prog ", "5">>, <<"prog sa", "7">>, <<"prog save --", "12">>, <<"prog save --o", "9">>,
     <<"prog nop -", "10">>, <<"prog tee --outs=", "16">>, <<"prog", "4">>, <<"prog x", "z">>}

Files == {"f", "g"}

\* The working directory cli.run starts in: g holds the byte "k", f is absent.
DiskInit == [n \in Files |-> IF n = "g" THEN <<S("k")>> ELSE <<>>]

RECURSIVE Split(_)
\* s.split(' ')
Split(s) ==
    LET At(i) == IF i = 0 THEN <<s>>
                 ELSE <<SubSeq(s, 1, i - 1)>> \o Split(SubSeq(s, i + 1, Len(s)))
    IN  At(Find(s, " "))

\* s.rsplit(' ', 1)
RSplit(s) ==
    LET At(i) == IF i = 0 THEN <<s>> ELSE <<SubSeq(s, 1, i - 1), SubSeq(s, i + 1, Len(s))>>
    IN  At(IF \E i \in 1..Len(s) : Ch(s, i) = " "
           THEN CHOOSE i \in 1..Len(s) : Ch(s, i) = " " /\ \A j \in (i + 1)..Len(s) : Ch(s, j) # " "
           ELSE 0)

\* a in ("help"): the parentheses make no tuple, and `in` on a str asks
\* whether a occurs in it.
InHelp(a) == \E i \in 1..5 : \E j \in 0..4 : SubSeq("help", i, j) = a

\* cli.run: the Action of a completion request.
CompleteAction(tmp) ==
    IF Len(tmp) > 1 THEN Action("complete", Tail(Split(tmp[1])), tmp[2], <<>>)
    ELSE Action("complete", <<>>, tmp[1], <<>>)

\* cli.run: the branch taken when COMP_LINE and COMP_POINT are set.
CompleteRequest(line, offset) ==
    IF ~offset.ok THEN Raise(offset.err)
    ELSE Ok(CompleteAction(RSplit(PySlice(line, 0, offset.v))))

\* cli.run: `action = cli.Action("help", action.path, {'manual': True})`
HelpFor(r) == IF ~r.ok THEN r ELSE Ok(Action("help", r.val.path, << <<"manual", TRUE>> >>, <<>>))

\* cli.run from `obj = root.render()` to the Action: lines 929 to 946.
RunAction(obj, argv, environ) ==
    IF environ # <<>> THEN CompleteRequest(environ[1], PyInt(S(environ[2])))
    ELSE IF argv # <<>> /\ InHelp(argv[1])
    THEN HelpFor(Command_parse_args(obj, <<>>, Tail(argv), environ))
    ELSE IF argv # <<>> /\ argv[1] = "--version" THEN Ok(Action("version", <<>>, <<>>, <<>>))
    ELSE IF argv # <<>> /\ argv[1] = "--help"
    THEN Ok(Action("help", <<>>, UsageFlag(TRUE), <<>>))
    ELSE Command_parse_args(obj, <<>>, argv, environ)

\* What the loop over action.argv has built so far: the files, the open
\* file_handles by name, the values of the current name, the dict argv.
Opening(files) == [disk |-> files, fhs |-> <<>>, vals |-> <<>>, argv |-> <<>>, exc |-> ""]

\* file_handles[name].append(fh), the list made when there is none.
Handles(fhs, name, file) ==
    DictSet(fhs, name, (IF DictHas(fhs, name) THEN DictGet(fhs, name) ELSE <<>>) \o <<file>>)

\* One value of action.argv: a read FileHandle is filled from its file, a
\* write FileHandle has its file created by open(value.name, "xb").
OpenValue(name, value, st) ==
    LET Filled(file) ==
            IF st.disk[file] = <<>> THEN [st EXCEPT !.exc = "FileNotFoundError"]
            ELSE [st EXCEPT !.vals = Append(@, FileHandle(VStr(file), VStr("read"),
                                                           VBytes(st.disk[file][1])))]
        Created(file) ==
            IF st.disk[file] # <<>> THEN [st EXCEPT !.exc = "FileExistsError"]
            ELSE [st EXCEPT !.disk = [@ EXCEPT ![file] = << <<>> >>],
                            !.fhs = Handles(@, name, file),
                            !.vals = Append(@, value)]
    IN  IF ~IsFileHandle(value) THEN [st EXCEPT !.vals = Append(@, value)]
        ELSE IF Kind(Attr(value, "name")) # "str" THEN [st EXCEPT !.exc = "TypeError"]
        ELSE IF Text(Attr(value, "name")[2]) \notin Files
        THEN [st EXCEPT !.exc = IF Attr(value, "mode") = VStr("read")
                                THEN "FileNotFoundError" ELSE "PermissionError"]
        ELSE IF Attr(value, "mode") = VStr("read") THEN Filled(Text(Attr(value, "name")[2]))
        ELSE IF Attr(value, "mode") = VStr("write") THEN Created(Text(Attr(value, "name")[2]))
        ELSE st

RECURSIVE OpenValues(_, _, _)
\* `for value in values:` over a list argument, left when open raises.
OpenValues(name, values, st) ==
    IF values = <<>> \/ st.exc # "" THEN st
    ELSE OpenValues(name, Tail(values), OpenValue(name, values[1], st))

\* argv[name] = out, or argv[name] = <the value> when there is one.
OpenedList(name, st) ==
    IF st.exc # "" THEN st
    ELSE [st EXCEPT !.argv = DictSet(@, VStr(name), VList(st.vals)), !.vals = <<>>]

OpenedOne(name, st) ==
    IF st.exc # "" \/ st.vals = <<>> THEN st
    ELSE [st EXCEPT !.argv = DictSet(@, VStr(name), st.vals[1]), !.vals = <<>>]

RECURSIVE OpenArgs(_, _)
\* `for name, values in action.argv.items():`, lines 956 to 988.
OpenArgs(items, st) ==
    IF items = <<>> \/ st.exc # "" THEN st
    ELSE OpenArgs(Tail(items),
                  IF Kind(items[1][2]) = "list"
                  THEN OpenedList(items[1][1], OpenValues(items[1][1], items[1][2][2], st))
                  ELSE OpenedOne(items[1][1], OpenValue(items[1][1], items[1][2], st)))

IsResponse(v) == Kind(v) = "obj" /\ v[2] = "Response"

\* fh.write(result.file_handles[name][idx]) for the idx-th handle of name.
WriteHandle(files, given, name, idx, file) ==
    IF files.exc # "" THEN files
    ELSE IF Kind(given) # "dict" THEN [files EXCEPT !.exc = "TypeError"]
    ELSE IF ~DictHas(given[2], VStr(name)) THEN [files EXCEPT !.exc = "KeyError"]
    ELSE IF Kind(DictGet(given[2], VStr(name))) # "list"
            \/ idx > Len(DictGet(given[2], VStr(name))[2])
    THEN [files EXCEPT !.exc = "IndexError"]
    ELSE IF Kind(DictGet(given[2], VStr(name))[2][idx]) # "bytes"
    THEN [files EXCEPT !.exc = "TypeError"]
    ELSE [files EXCEPT !.disk = [@ EXCEPT ![file] =
                                    <<@[1] \o DictGet(given[2], VStr(name))[2][idx][2]>>]]

RECURSIVE WriteHandles(_, _, _, _, _)
\* `for idx, fh in enumerate(fhs):` from the idx-th handle on.
WriteHandles(files, given, name, fhs, idx) ==
    IF idx > Len(fhs) THEN files
    ELSE WriteHandles(WriteHandle(files, given, name, idx, fhs[idx]), given, name, fhs, idx + 1)

RECURSIVE WriteAll(_, _, _)
\* `for name, fhs in file_handles.items():`, lines 993 to 996.
WriteAll(files, given, handles) ==
    IF handles = <<>> THEN files
    ELSE WriteAll(WriteHandles(files, given, handles[1][1], handles[1][2], 1),
                  given, Tail(handles))

\* Lines 992 to 1000: the files after the call returned result.
Written(files, handles, result) ==
    IF handles # <<>> /\ IsResponse(result) /\ Truthy(Attr(result, "file_handles"))
    THEN WriteAll([disk |-> files, exc |-> ""], Attr(result, "file_handles"), handles)
    ELSE [disk |-> files, exc |-> ""]

\* A variant of the exit code that counts the error messages without
\* negating the count.
ExitCodeCount(result, action) ==
    IF IsResponse(result) THEN Attr(result, "exit_code")[2] ELSE Len(action.errors)

\* Lines 1010 to 1014.
ExitCode(result, action) ==
    IF IsResponse(result) THEN Attr(result, "exit_code")[2] ELSE 0 - Len(action.errors)

\* The value printed, lines 1010 to 1020: <<>> when it is None.
Printed(result) ==
    IF IsResponse(result)
    THEN (IF Attr(result, "value") = VNone THEN <<>> ELSE <<Attr(result, "value")>>)
    ELSE (IF result = VNone THEN <<>> ELSE <<result>>)

RunArgvs == SeqsUpTo(RunTokens, MaxRunArgv)

\* The Action while cli.run has none yet.
NoAction == Action("", <<>>, <<>>, <<>>)

RunInit ==
    /\ \E argv \in RunArgvs, environ \in {<<>>} \cup CompEnvs :
          /\ environ # <<>> => argv = <<>>
          /\ run = [pc |-> "start", argv |-> argv, environ |-> environ, obj |-> VNone,
                    action |-> NoAction, fhs |-> <<>>, cargv |-> VNone, result |-> VNone,
                    called |-> FALSE, out |-> <<>>, exit |-> <<>>, exc |-> ""]
    /\ disk = DiskInit
    /\ CodecIdle
    /\ BinderIdle
    /\ PipeIdle

Others == <<cpc, cval, cbuf, cres, bpc, bspec, bargv, bres, client, server, pipe>>

\* cli.run raises e.
RunRaised(e) == [run EXCEPT !.pc = "raised", !.exc = e]

\* obj = root.render()
RunRender ==
    LET Got(obj) == IF ~obj.ok THEN RunRaised(obj.err)
                    ELSE [run EXCEPT !.pc = "resolve", !.obj = obj.val]
    IN  /\ run.pc = "start"
        /\ run' = Got(Rendered)
        /\ UNCHANGED <<disk, Others>>

\* Lines 929 to 946: the Action.
RunResolve ==
    LET Got(action) == IF ~action.ok THEN RunRaised(action.err)
                       ELSE [run EXCEPT !.pc = action.val.mode, !.action = action.val]
    IN  /\ run.pc = "resolve"
        /\ run' = Got(RunAction(run.obj, run.argv, run.environ))
        /\ UNCHANGED <<disk, Others>>

\* action.mode == "complete": the candidates are printed and 0 returned.
RunComplete ==
    LET Got(result) == IF ~result.ok THEN RunRaised(result.err)
                       ELSE [run EXCEPT !.pc = "returned", !.out = result.val, !.exit = <<0>>]
    IN  /\ run.pc = "complete"
        /\ run' = Got(complete(run.obj, run.action.path, run.action.argv))
        /\ UNCHANGED <<disk, Others>>

\* action.mode == "call", lines 954 to 988: the input files are read and
\* the output files opened.
RunOpen ==
    LET Got(st) ==
            /\ disk' = st.disk
            /\ run' = IF st.exc # "" THEN [RunRaised(st.exc) EXCEPT !.fhs = st.fhs]
                      ELSE [run EXCEPT !.pc = "opened", !.fhs = st.fhs,
                                       !.cargv = VDict(st.argv)]
    IN  /\ run.pc = "call"
        /\ Got(OpenArgs(run.action.argv, Opening(disk)))
        /\ UNCHANGED Others

\* result = root.call(action.path, argv)
RunCall ==
    LET Got(result) == IF ~result.ok THEN RunRaised(result.err)
                       ELSE [run EXCEPT !.pc = "called", !.result = result.val,
                                        !.called = TRUE]
    IN  /\ run.pc = "opened"
        /\ run' = Got(FakeRemoteCommand_call(App,
                          VList([i \in 1..Len(run.action.path) |-> VStr(run.action.path[i])]),
                          run.cargv))
        /\ UNCHANGED <<disk, Others>>

\* Lines 992 to 1000: what the call returned for each output file is
\* written to it, and the files are closed.
RunWrite ==
    LET Got(files) ==
            /\ disk' = files.disk
            /\ run' = IF files.exc # "" THEN RunRaised(files.exc)
                      ELSE [run EXCEPT !.pc = "exit"]
    IN  /\ run.pc = "called"
        /\ Got(Written(disk, run.fhs, run.result))
        /\ UNCHANGED Others

\* action.mode == "version"
RunVersion ==
    /\ run.pc = "version"
    /\ run' = [run EXCEPT !.pc = "exit", !.result = <<"str", Command_version(run.obj)>>]
    /\ UNCHANGED <<disk, Others>>

\* action.mode == "help"
RunHelp ==
    /\ run.pc = "help"
    /\ run' = [run EXCEPT !.pc = "exit",
                          !.result = <<"str", Command_help(run.obj, run.action.path,
                                                           GetUsage(run.action.argv))>>]
    /\ UNCHANGED <<disk, Others>>

\* action.mode == "error": the errors are printed, then the usage.
RunError ==
    /\ run.pc = "error"
    /\ run' = [run EXCEPT !.pc = "exit",
                          !.out = <<"error: " \o Join(", ", run.action.errors)>>,
                          !.result = <<"str", Command_help(run.obj, run.action.path,
                                                           GetUsage(run.action.argv))>>]
    /\ UNCHANGED <<disk, Others>>

\* Lines 1010 to 1022: the result is printed and the exit code returned.
RunExit ==
    /\ run.pc = "exit"
    /\ run' = [run EXCEPT !.pc = "returned",
                          !.out = @ \o Printed(run.result),
                          !.exit = <<ExitCode(run.result, run.action)>>]
    /\ UNCHANGED <<disk, Others>>

RunNext ==
    \/ RunRender
    \/ RunResolve
    \/ RunComplete
    \/ RunOpen
    \/ RunCall
    \/ RunWrite
    \/ RunVersion
    \/ RunHelp
    \/ RunError
    \/ RunExit

SpecRun == RunInit /\ [][RunNext]_vars

(***************************************************************************)
(* What the claims speak of, stated on argv and the Argspec alone.         *)
(***************************************************************************)
IsFlagToken(tok) == StartsWith(tok, "--")

\* The key of a `--key` or `--key=value` token.
FlagKey(tok) ==
    LET rest == SubSeq(tok, 3, Len(tok))
        eq   == Find(rest, "=")
    IN  IF eq > 0 THEN SubSeq(rest, 1, eq - 1) ELSE rest

\* The value of a `--key=value` token, <<>> for a valueless `--key`.
FlagValue(tok) ==
    LET rest == SubSeq(tok, 3, Len(tok))
        eq   == Find(rest, "=")
    IN  IF eq > 0 THEN <<SubSeq(rest, eq + 1, Len(rest))>> ELSE <<>>

\* The values of the occurrences of `--key` in argv, in order.
Occurrences(argv, key) ==
    LET toks == SelectSeq(argv, LAMBDA t : IsFlagToken(t) /\ FlagKey(t) = key)
    IN  [i \in 1..Len(toks) |-> FlagValue(toks[i])]

BareTokens(argv) == SelectSeq(argv, LAMBDA t : ~IsFlagToken(t))

Range(f) == {f[i] : i \in DOMAIN f}

PositionalNames(argspec) ==
    Range(argspec.positional) \cup Range(argspec.optional) \cup Range(argspec.tail)

DeclaredNames(argspec) ==
    Range(argspec.switches) \cup Range(argspec.flags) \cup Range(argspec.lists)
        \cup PositionalNames(argspec)

\* Some positional, optional or tail name appears as a flag key.
NamedMode(argspec, argv) ==
    \E i \in 1..Len(argv) :
        IsFlagToken(argv[i]) /\ FlagKey(argv[i]) \in PositionalNames(argspec)

HasUnknownKey(argspec, argv) ==
    \E i \in 1..Len(argv) :
        IsFlagToken(argv[i]) /\ FlagKey(argv[i]) \notin DeclaredNames(argspec)

Bound(name) == DictGet(bres.args, name)

\* The type tag the byte grammar gives a value's shape.
GrammarTag(v) ==
    CASE v = VTrue -> Ord("y")
      [] v = VFalse -> Ord("n")
      [] Kind(v) = "none" -> Ord("z")
      [] Kind(v) = "int" -> Ord("i")
      [] Kind(v) = "float" -> Ord("f")
      [] Kind(v) = "bytes" -> Ord("b")
      [] Kind(v) = "str" -> Ord("u")
      [] Kind(v) = "list" -> Ord("L")
      [] Kind(v) = "dict" -> Ord("R")
      [] Kind(v) = "obj" -> Ord("T")

(***************************************************************************)
(* The claims.                                                             *)
(***************************************************************************)

\* C1: every value of the codec's data model is dumped, and parsing the
\* dumped buffer from offset 0 returns a value equal to it.
C1_RoundTrip ==
    /\ cpc # "start" => cbuf.ok
    /\ cpc = "parsed" => cres.ok /\ cres.val = cval

\* C2: the first byte codec.dump emits is the type tag the byte grammar
\* gives the value's shape, a variable-length encoding ends with END, and
\* a count or length field is decimal digits closed by END.
C2_EncoderConformance ==
    cpc # "start" /\ cbuf.ok =>
        LET b == cbuf.buf.data
        IN  /\ b[1] = GrammarTag(cval)
            /\ Kind(cval) \notin {"bool", "none"} => b[Len(b)] = codec_END
            /\ Kind(cval) \in {"bytes", "str", "list", "dict"} =>
                  \E p \in 3..Len(b) : /\ b[p] = codec_END
                                       /\ \A q \in 2..(p - 1) : IsDigit(b[q])

\* C3: for the same tree and the same request, what the PipeClient returns
\* is what the FakeRemoteCommand returns: when either of the two returns a
\* value, the other returns the same value.
C3_TransportParity ==
    (client.pc \in {"idle", "raised"} /\ client.sent # <<>>)
        => ((client.result.ok \/ client.local.ok) => client.result = client.local)

\* C4: requests and responses alternate on the pipe: the parent writes a
\* request only when every request it sent has been answered, the child at
\* rest has written one response for each request it read, and the i-th
\* response received is the child's response to the i-th request sent.
C4_Alternation ==
    /\ Len(client.received) <= Len(client.sent)
    /\ Len(client.sent) <= Len(client.received) + 1
    /\ client.pc \in {"dump", "write"} => Len(client.sent) = Len(client.received)
    /\ server.pc \in {"readline", "returned", "crashed"}
            => Len(server.written) = Len(server.read)
    /\ \A i \in 1..Len(client.received) :
            /\ i <= Len(server.written) /\ client.received[i] = server.written[i]
            /\ i <= Len(server.read) /\ server.read[i] = client.sent[i]

\* C5: when parse_args returns, the mapping has a key for every declared
\* name; an absent switch is False, an absent flag or optional None, an
\* absent list or tail the empty list, in either mode.
C5_BinderCompleteness ==
    bpc = "done" /\ bres.exc = "" =>
        LET bare == BareTokens(bargv)
            np   == Len(bspec.positional)
        IN  /\ \A n \in DeclaredNames(bspec) : DictHas(bres.args, n)
            /\ \A n \in Range(bspec.switches) :
                  Occurrences(bargv, n) = <<>> => Bound(n) = VFalse
            /\ \A n \in Range(bspec.flags) :
                  Occurrences(bargv, n) = <<>> => Bound(n) = VNone
            /\ \A n \in Range(bspec.lists) :
                  Occurrences(bargv, n) = <<>> => Bound(n) = VList(<<>>)
            /\ \A j \in 1..Len(bspec.optional) :
                  /\ Occurrences(bargv, bspec.optional[j]) = <<>>
                  /\ NamedMode(bspec, bargv) \/ Len(bare) < np + j
                  => Bound(bspec.optional[j]) = VNone
            /\ \A n \in Range(bspec.tail) :
                  /\ Occurrences(bargv, n) = <<>>
                  /\ NamedMode(bspec, bargv) \/ Len(bare) <= np + Len(bspec.optional)
                  => Bound(n) = VList(<<>>)

\* What try_parse makes of a bare token for the name it is bound to.
Parsed(name, tok) == try_parse(name, <<tok>>, ArgType(bspec, name)).v

\* C6: in positional mode the bare tokens are bound left to right: one per
\* positional name (too few is a BadArg), then one per optional name (None
\* once they are used up), then all the rest, in order, to the tail.
C6_PositionalMode ==
    bpc = "done" /\ ~NamedMode(bspec, bargv) =>
        LET bare == BareTokens(bargv)
            np   == Len(bspec.positional)
            no   == Len(bspec.optional)
        IN  /\ Len(bare) < np => bres.exc = "BadArg"
            /\ bres.exc = "" =>
                  /\ \A i \in 1..np :
                        Bound(bspec.positional[i]) = Parsed(bspec.positional[i], bare[i])
                  /\ \A j \in 1..no :
                        Bound(bspec.optional[j]) =
                            IF np + j <= Len(bare)
                            THEN Parsed(bspec.optional[j], bare[np + j])
                            ELSE VNone
                  /\ \A n \in Range(bspec.tail) :
                        Bound(n) = VList([k \in 1..Max(Len(bare) - np - no, 0) |->
                                             Parsed(n, bare[np + no + k])])
            /\ bspec = Scenarios[1].argspec /\ bargv = <<"1", "2">> =>
                  bres = [exc |-> "",
                          args |-> << <<"a", VInt(1)>>, <<"b", VInt(2)>>, <<"c", VNone>>,
                                      <<"t", VList(<<>>)>> >>]
            /\ bspec = Scenarios[1].argspec /\ bargv = <<"1", "2", "3", "4">> =>
                  bres = [exc |-> "",
                          args |-> << <<"a", VInt(1)>>, <<"b", VInt(2)>>, <<"c", VInt(3)>>,
                                      <<"t", VList(<<VInt(4)>>)>> >>]

C6_Witness ==
    /\ bpc = "done"
    /\ bspec = Scenarios[1].argspec
    /\ bargv = <<"1", "2", "3", "4">>
    /\ bres.exc = ""

\* C7: a flag without a `--f` token is None; with a single `--f=v` it is v
\* parsed per f's type, whatever else argv holds; a valueless or a repeated
\* `--f` is a BadArg.
C7_FlagBinding ==
    bpc = "done" =>
        \A f \in Range(bspec.flags) :
            LET occ == Occurrences(bargv, f)
            IN  /\ Len(occ) > 1 \/ (\E i \in 1..Len(occ) : occ[i] = <<>>)
                      => bres.exc = "BadArg"
                /\ bres.exc = "" /\ occ = <<>> => Bound(f) = VNone
                /\ bres.exc = "" /\ Len(occ) = 1 =>
                      Bound(f) = try_parse(f, occ[1], ArgType(bspec, f)).v

\* C8: a switch without a `--s` token is False; a single valueless `--s` is
\* True; a single `--s=v` is the boolean v names, and a BadArg unless v is
\* true or false; a repeated `--s` is a BadArg.
C8_SwitchBinding ==
    bpc = "done" =>
        \A n \in Range(bspec.switches) :
            LET occ == Occurrences(bargv, n)
            IN  /\ Len(occ) > 1 => bres.exc = "BadArg"
                /\ Len(occ) = 1 /\ occ[1] \notin {<<>>, <<"true">>, <<"false">>}
                      => bres.exc = "BadArg"
                /\ bres.exc = "" =>
                      Bound(n) = IF occ = <<>> THEN VFalse
                                 ELSE IF occ[1] = <<>> THEN VTrue
                                 ELSE VBool(occ[1] = <<"true">>)

C8_Witness ==
    /\ bpc = "done"
    /\ bargv = <<"--verbose=false", "--quiet", "1">>
    /\ bres.exc = ""
    /\ Bound("verbose") = VFalse
    /\ Bound("quiet") = VTrue

\* C9: a list flag is the sequence of the values of all its `--l=v`
\* occurrences, each parsed per l's type, in occurrence order; the empty
\* sequence without an occurrence; a valueless occurrence is a BadArg.
C9_ListBinding ==
    bpc = "done" =>
        \A n \in Range(bspec.lists) :
            LET occ == Occurrences(bargv, n)
            IN  /\ (\E i \in 1..Len(occ) : occ[i] = <<>>) => bres.exc = "BadArg"
                /\ bres.exc = "" =>
                      Bound(n) = VList([i \in 1..Len(occ) |->
                                           try_parse(n, occ[i], ArgType(bspec, n)).v])
                /\ bargv = <<"--tag=x", "--tag=y">> =>
                      bres.exc = "" /\ Bound("tag") = VList(<<VStr("x"), VStr("y")>>)

C9_Witness ==
    /\ bpc = "done"
    /\ bargv = <<"--tag=y", "--n=1", "--tag=x">>
    /\ bres.exc = ""
    /\ Bound("tag") = VList(<<VStr("y"), VStr("x")>>)
    /\ Bound("n") = VList(<<VInt(1)>>)

\* C10: an argv with a `--key` token whose key no category declares is
\* rejected, in positional and in named mode (the claim asks for more: a
\* BadArg that says "unknown option flags").
C10_UnknownFlagRejected ==
    bpc = "done" /\ HasUnknownKey(bspec, bargv) => bres.exc # ""

\* Every flag token of argv is a single `--name=value` of a positional,
\* optional or tail name, and every positional name is given: nothing but
\* the bare tokens is left for parse_args to reject.
OnlyNamedValues(argspec, argv) ==
    /\ \A i \in 1..Len(argv) :
          IsFlagToken(argv[i]) =>
              /\ FlagKey(argv[i]) \in PositionalNames(argspec)
              /\ FlagValue(argv[i]) # <<>>
              /\ \A j \in 1..Len(argv) :
                    (j # i /\ IsFlagToken(argv[j])) => FlagKey(argv[j]) # FlagKey(argv[i])
    /\ \A n \in Range(argspec.positional) : Occurrences(argv, n) # <<>>

\* C11: in named mode a bare token in argv makes parse_args raise BadArg,
\* and when the flags themselves are in order the message is "unnamed
\* options given".
C11_NamedModePrecedence ==
    (bpc = "done" /\ NamedMode(bspec, bargv) /\ BareTokens(bargv) # <<>>)
        => /\ bres.exc = "BadArg"
           /\ OnlyNamedValues(bspec, bargv)
                  => StartsWith(bres.msg, "unnamed options given")

(***************************************************************************)
(* What the claims on resolution and on cli.run speak of, stated on the    *)
(* tree App and on argv.                                                   *)
(***************************************************************************)
\* The child of a cli.Command node that a token names, <<>> when none.
Child(node, tok) == SelectSeq(node.subcommands, LAMBDA c : c.name = tok)

RECURSIVE Reached(_, _, _)
\* Where the leading tokens of argv lead from node: the node reached, its
\* path, and the tokens left.
Reached(node, path, argv) ==
    IF argv # <<>> /\ Child(node, argv[1]) # <<>>
    THEN Reached(Child(node, argv[1])[1], Append(path, argv[1]), Tail(argv))
    ELSE [node |-> node, path |-> path, rest |-> argv]

\* cli.run hands argv to the resolver: no completion is asked for and the
\* first token is none of `help`, a part of it, `--version`, `--help`.
Direct(argv, environ) ==
    /\ environ = <<>>
    /\ ~(argv # <<>> /\ (InHelp(argv[1]) \/ argv[1] \in {"--version", "--help"}))

\* cli.run has left the resolver, with an Action or with an exception.
Resolved == run.pc \notin {"start", "resolve"} /\ run.obj # VNone

HasHelpFlag(argv) == \E i \in 1..Len(argv) : argv[i] = "--help"

\* C12: on a node with an Argspec the resolver returns an Action of mode
\* call, help or error and lets no exception escape; an error Action
\* carries a message and the usage flag.
C12_BinderFailuresRecovered ==
    (Resolved /\ Direct(run.argv, run.environ)
        /\ Reached(App, <<>>, run.argv).node.argspec # <<>>)
        => /\ run.action.mode \in {"call", "help", "error"}
           /\ run.action.mode = "error"
                 => run.action.errors # <<>> /\ GetUsage(run.action.argv)

\* What the resolver is to return on a grouping node for the tokens left.
GroupAction(at) ==
    IF at.rest = <<>> THEN Action("help", at.path, UsageFlag(FALSE), <<>>)
    ELSE IF at.rest[1] = "help" \/ HasHelpFlag(at.rest)
    THEN Action("help", at.path, UsageFlag(TRUE), <<>>)
    ELSE IF at.node.subcommands # <<>>
    THEN Action("error", at.path, UsageFlag(TRUE), <<"unknown command: " \o at.rest[1]>>)
    ELSE Action("error", at.path, UsageFlag(TRUE), <<"unknown option: " \o at.rest[1]>>)

\* C13: on a grouping node an empty argv resolves to help in manual form,
\* a first token `help` or a `--help` anywhere to help in usage-only form,
\* and any other argv to an error naming the unknown command or option.
C13_GroupResolution ==
    (Resolved /\ Direct(run.argv, run.environ)
        /\ Reached(App, <<>>, run.argv).node.argspec = <<>>)
        => run.action = GroupAction(Reached(App, <<>>, run.argv))

\* C14: on a node with an Argspec a `--help` among the tokens left
\* resolves to a usage-only help Action for that node, whatever the other
\* tokens are.
C14_HelpShortCircuit ==
    (Resolved /\ Direct(run.argv, run.environ)
        /\ Reached(App, <<>>, run.argv).node.argspec # <<>>
        /\ HasHelpFlag(Reached(App, <<>>, run.argv).rest))
        => run.action = Action("help", Reached(App, <<>>, run.argv).path,
                               UsageFlag(TRUE), <<>>)

\* `--help` follows a flag that the binder would reject.
C14_Witness ==
    /\ Resolved
    /\ run.argv = <<"pair", "--x=1", "--help">>
    /\ run.action.mode = "help"

RECURSIVE Descended(_, _)
\* The node of the served tree that a path of child names leads to, <<>>
\* when the path leaves the tree.
Descended(node, path) ==
    IF path = <<>> THEN <<node>>
    ELSE IF Kind(path[1]) = "str" /\ Child(node, Text(path[1][2])) # <<>>
    THEN Descended(Child(node, Text(path[1][2]))[1], Tail(path))
    ELSE <<>>

\* The last request the child has parsed is a call whose path stays in
\* the tree, and the child is past its dispatch.
Dispatched ==
    /\ server.read # <<>>
    /\ server.pc \in {"size", "crashed"}
    /\ Attr(server.read[Len(server.read)], "action") = VStr("call")
    /\ Descended(Root, Attr(server.read[Len(server.read)], "path")[2]) # <<>>

\* The rows of the dispatch table for what call returned on node.
DispatchRow(node, argv, r) ==
    /\ r.ok
    /\ IF node.run_fn # ""
       THEN Attr(r.val, "exit_code") = VInt(IF PyLen(argv) = node.nargs THEN 0 ELSE -1)
       ELSE r.val = IF PyLen(argv) = 0
                    THEN Response(VInt(0), <<"str", manual(render(node))>>, VTuple(<<>>))
                    ELSE Response(VInt(-1), <<"str", usage(render(node))>>, VTuple(<<>>))

\* C15: cli.Command.call, on the node its path leads to, returns a Response
\* with exit code 0 when an executable is bound and argv has its arity, with
\* exit code -1 when the count differs, the manual with exit code 0 when
\* no executable is bound and argv is empty, and the usage with exit code -1
\* when no executable is bound and argv is not empty.
C15_Dispatch ==
    Dispatched
        => DispatchRow(Descended(Root, Attr(server.read[Len(server.read)], "path")[2])[1],
                       Attr(server.read[Len(server.read)], "argv"),
                       call(Root, Attr(server.read[Len(server.read)], "path"),
                            Attr(server.read[Len(server.read)], "argv")))

\* C16: cli.run creates or writes an output file only once root.call has
\* returned a successful Response; after a call that raised or failed no
\* output file has been created.
C16_OutputAfterSuccess ==
    \A file \in Files :
        disk[file] # DiskInit[file]
            => /\ run.called
               /\ IsResponse(run.result)
               /\ Attr(run.result, "exit_code") = VInt(0)

\* The exit status that goes with an Action and a result.
ExitStatus(action, result) ==
    CASE action.mode \in {"help", "version", "complete"} -> 0
      [] action.mode = "call"  -> Attr(result, "exit_code")[2]
      [] action.mode = "error" -> 0 - Len(action.errors)

\* C17: cli.run returns 0 for help, version and completion, the exit_code
\* of the Response for a call, and minus the number of error messages for
\* an error.
C17_ExitStatus ==
    run.pc = "returned" => run.exit = <<ExitStatus(run.action, run.result)>>

\* cli.run has returned for an argv that resolves to an error.
C17_Witness ==
    /\ run.pc = "returned"
    /\ run.action.mode = "error"
    /\ Len(run.action.errors) = 1
    /\ run.exit = <<-1>>

\* cli.run holds what the resolver gave for argv: the Action, or none when
\* the resolver raised.
HandedOn(r) ==
    IF r.ok THEN run.action = r.val ELSE run.action = NoAction /\ run.pc = "raised"

\* The Action `help` of cli.run for what the resolver gave for the tokens
\* after `help`.
HelpOf(r) ==
    r.ok => run.action = Action("help", r.val.path, << <<"manual", TRUE>> >>, <<>>)

\* C18: cli.run treats argv on its own only when the first token is
\* exactly `help`, `--version` or `--help`; every other argv, a first
\* token that is a part of the word help included, goes to the resolver
\* unchanged.
C18_PreDispatch ==
    (Resolved /\ run.environ = <<>>)
        => IF run.argv # <<>> /\ run.argv[1] = "help"
           THEN HelpOf(Command_parse_args(run.obj, <<>>, Tail(run.argv), <<>>))
           ELSE IF run.argv # <<>> /\ run.argv[1] = "--version"
           THEN run.action = Action("version", <<>>, <<>>, <<>>)
           ELSE IF run.argv # <<>> /\ run.argv[1] = "--help"
           THEN run.action = Action("help", <<>>, UsageFlag(TRUE), <<>>)
           ELSE HandedOn(Command_parse_args(run.obj, <<>>, run.argv, <<>>))

\* C19: codec.parse returns a value for every buffer codec.dump produced,
\* and raises on a buffer whose leading byte is no type byte, on a tagged
\* record whose tag name is not registered, and on a buffer in which the
\* END that closes a region is missing.
C19_DecodeRejects ==
    cpc = "parsed" => (cres.ok <=> cval.damage = <<"none">>)

\* C20: cli.offer_pipe stops serving and returns 0 when readline meets the
\* end of its input, and also when it reads a line that is empty.
C20_ServerStops ==
    [][(ServerReadLine /\ ReadLine(pipe.request).line \in {<<>>, <<10>>})
           => server'.pc = "returned"]_vars

\* C21: in named mode every positional name is bound to the parsed value of
\* its own single `--name=value`, every optional name to that of its own or
\* to None without one, the tail to the list of the parsed values of its
\* own occurrences in order; a positional name without an occurrence, and a
\* repeated or valueless occurrence, is a BadArg.
C21_NamedBinding ==
    bpc = "done" /\ NamedMode(bspec, bargv) =>
        LET Own(n)     == Occurrences(bargv, n)
            Spoiled(n) == Len(Own(n)) > 1 \/ \E i \in 1..Len(Own(n)) : Own(n)[i] = <<>>
            Is(n, v)   == DictHas(bres.args, n) /\ Bound(n) = v
        IN  /\ bres.exc \in {"", "BadArg"}
            /\ (\E n \in Range(bspec.positional) : Own(n) = <<>> \/ Spoiled(n))
                  => bres.exc = "BadArg"
            /\ (\E n \in Range(bspec.optional) : Spoiled(n)) => bres.exc = "BadArg"
            /\ (\E n \in Range(bspec.tail) : \E i \in 1..Len(Own(n)) : Own(n)[i] = <<>>)
                  => bres.exc = "BadArg"
            /\ bres.exc = "" =>
                  /\ \A n \in Range(bspec.positional) :
                        Is(n, try_parse(n, Own(n)[1], ArgType(bspec, n)).v)
                  /\ \A n \in Range(bspec.optional) :
                        Is(n, IF Own(n) = <<>> THEN VNone
                              ELSE try_parse(n, Own(n)[1], ArgType(bspec, n)).v)
                  /\ \A n \in Range(bspec.tail) :
                        Is(n, VList([i \in 1..Len(Own(n)) |->
                                        try_parse(n, Own(n)[i], ArgType(bspec, n)).v]))

(***************************************************************************)
(* parse_argspec(argspec), argspec a grammar on one line without `#`: args *)
(* is argspec.split(), a sequence of tokens, and every description is      *)
(* None.  The locals are one record: args (what is left of the list), the  *)
(* six categories, argtypes, the set argnames, `name` (what the last call  *)
(* of argname returned) and the exception raised, if any.                  *)
(***************************************************************************)
\* The members of the Enum ARGTYPES.
ArgTypes ==
    {"bool", "boolean", "int", "integer", "float", "num", "number", "str", "string",
     "scalar", "infile", "outfile"}

\* The texts for which getattr(ARGTYPES, atype, None) is not None: the
\* members, and the attributes every Enum class has, mro among them.
ArgTypeAttributes == ArgTypes \cup {"mro", "__members__"}

\* arg.split(':')
RECURSIVE SplitColon(_)
SplitColon(s) ==
    LET At(i) == IF i = 0 THEN <<s>>
                 ELSE <<SubSeq(s, 1, i - 1)>> \o SplitColon(SubSeq(s, i + 1, Len(s)))
    IN  At(Find(s, ":"))

Raised(st, exc, msg) == [st EXCEPT !.exc = exc, !.msg = msg]

\* argname from `if name in argnames:` on.
Registered(st, name) ==
    IF name \in st.argnames THEN Raised(st, "Exception", "duplicate arg name")
    ELSE [st EXCEPT !.argnames = @ \cup {name}, !.name = name]

\* argname from `name, atype = arg.split(':')` on, parts being the split.
Typed(st, parts) ==
    IF Len(parts) # 2 THEN Raised(st, "ValueError", "too many values to unpack (expected 2)")
    ELSE IF parts[2] \notin ArgTypeAttributes
    THEN Raised(st, "BadArg",
                "option " \o parts[1] \o " has unrecognized type " \o parts[2])
    ELSE Registered([st EXCEPT !.argtypes = DictSet(@, parts[1], parts[2])], parts[1])

\* argname(arg, desc), desc being None: an empty arg is returned as it is.
argname(st, arg) ==
    IF arg = "" THEN [st EXCEPT !.name = ""]
    ELSE IF Find(arg, ":") > 0 THEN Typed(st, SplitColon(arg))
    ELSE Registered(st, arg)

\* category.append(argname(arg, desc))
Appended(category, r) ==
    IF r.exc # "" THEN r ELSE [r EXCEPT ![category] = Append(@, r.name)]

\* tail = argname(arg, desc)
AsTail(r) == IF r.exc # "" THEN r ELSE [r EXCEPT !.tail = <<r.name>>]

\* args.pop(0)
Shift(st) == [st EXCEPT !.args = Tail(@)]

\* arg[a:b] of a token
Cut(arg, a, b) == PySlice(arg, a, b)

\* The body of `while args: # flags` after args.pop(0).
FlagsStep(st, arg) ==
    IF EndsWith(arg, "?")
    THEN IF Find(arg, ":") > 0 THEN Raised(st, "Exception", "switches cant have types")
         ELSE Appended("switches", argname(st, Cut(arg, 2, -1)))
    ELSE IF EndsWith(arg, "...") THEN Appended("lists", argname(st, Cut(arg, 2, -3)))
    ELSE Appended("flags", argname(st, Cut(arg, 2, Len(arg))))

RECURSIVE WhileFlags(_)
\* `while args: # flags`
WhileFlags(st) ==
    IF st.exc # "" \/ st.args = <<>> \/ ~StartsWith(st.args[1], "--") THEN st
    ELSE WhileFlags(FlagsStep(Shift(st), st.args[1]))

RECURSIVE WhilePositional(_)
\* `while args: # positional`
WhilePositional(st) ==
    IF st.exc # "" \/ st.args = <<>> THEN st
    ELSE IF StartsWith(st.args[1], "--") THEN Raised(st, "Exception", "badarg")
    ELSE IF \E suffix \in {"...]", "]", "..."} : EndsWith(st.args[1], suffix) THEN st
    ELSE WhilePositional(Appended("positional", argname(Shift(st), st.args[1])))

\* The branch `if args and args[0].endswith('...'):`.
BareTail(st, arg) ==
    IF StartsWith(arg, "--") \/ StartsWith(arg, "[") THEN Raised(st, "Exception", "badarg")
    ELSE AsTail(argname(st, Cut(arg, 0, -3)))

RECURSIVE WhileOptional(_)
\* `while args: # optional`
WhileOptional(st) ==
    IF st.exc # "" \/ st.args = <<>> THEN st
    ELSE IF StartsWith(st.args[1], "--") THEN Raised(st, "Exception", "badarg")
    ELSE IF EndsWith(st.args[1], "...]") THEN st
    ELSE IF ~(StartsWith(st.args[1], "[") /\ EndsWith(st.args[1], "]"))
    THEN Raised(Shift(st), "Exception", "badarg")
    ELSE WhileOptional(Appended("optional", argname(Shift(st), Cut(st.args[1], 1, -1))))

\* `if args: # tail`, after the optional loop.
BracketTail(st) ==
    IF st.exc # "" \/ st.args = <<>> THEN st
    ELSE IF StartsWith(st.args[1], "--") \/ ~StartsWith(st.args[1], "[")
            \/ ~EndsWith(st.args[1], "...]")
    THEN Raised(Shift(st), "Exception", "badarg")
    ELSE AsTail(argname(Shift(st), Cut(st.args[1], 1, -4)))

\* What follows the positional loop: the tail, or the optionals and the
\* tail, and the final `if args: raise Exception('bad argspec')`.
AfterPositional(st) ==
    LET Left(st2) == IF st2.exc = "" /\ st2.args # <<>>
                     THEN Raised(st2, "Exception", "bad argspec") ELSE st2
    IN  IF st.exc # "" \/ st.args = <<>> THEN st
        ELSE IF EndsWith(st.args[1], "...") THEN Left(BareTail(Shift(st), st.args[1]))
        ELSE Left(BracketTail(WhileOptional(st)))

\* parse_argspec(argspec): [exc |-> "", nargs, argspec] when it returns
\* (nargs, wire.Argspec(...)), else [exc, msg], the exception raised.
parse_argspec(args) ==
    LET Result(st) ==
            IF st.exc # "" THEN [exc |-> st.exc, msg |-> st.msg]
            ELSE [exc |-> "", nargs |-> Len(args),
                  argspec |-> Argspec(st.switches, st.flags, st.lists, st.positional,
                                      st.optional, st.tail, st.argtypes)]
    IN  Result(AfterPositional(WhilePositional(WhileFlags(
            [args |-> args, switches |-> <<>>, flags |-> <<>>, lists |-> <<>>,
             positional |-> <<>>, optional |-> <<>>, tail |-> <<>>, argtypes |-> <<>>,
             argnames |-> {}, name |-> "", exc |-> "", msg |-> ""]))))

(***************************************************************************)
(* The grammar compiler on its own: a grammar is drawn and compiled by     *)
(* parse_argspec, as cli.Command.run(argspec) does for the command `prog`; *)
(* when it compiles, the usage text of the rendered command is produced.   *)
(***************************************************************************)
MaxGrammar == 3     \* most tokens in a grammar drawn

GrammarTokens ==
    {"--a?", "--f", "--l...", "a", "a:int", "b", "[a]", "[c]", "[t...]", "t...",
     "--", "a:mro", "b:zip", "[...]"}

ArgspecInit ==
    /\ bpc = "start"
    /\ bspec = VNone
    /\ bargv \in SeqsUpTo(GrammarTokens, MaxGrammar)
    /\ bres = VNone
    /\ CodecIdle
    /\ PipeIdle
    /\ RunIdle

\* self.nargs, self.argspec = parse_argspec(argspec)
Compile ==
    /\ bpc = "start"
    /\ bspec' = parse_argspec(bargv)
    /\ bpc' = "compiled"
    /\ UNCHANGED <<bres, bargv, cpc, cval, cbuf, cres, client, server, pipe, run, disk>>

\* The command `prog` with the compiled grammar, as render() hands it on.
Compiled(r) == render(Command("prog", <<>>, <<>>, <<>>, "", <<r.argspec>>, r.nargs))

\* root.render().usage()
Usage ==
    /\ bpc = "compiled"
    /\ bspec.exc = ""
    /\ bres' = usage(Compiled(bspec))
    /\ bpc' = "rendered"
    /\ UNCHANGED <<bspec, bargv, cpc, cval, cbuf, cres, client, server, pipe, run, disk>>

ArgspecNext == Compile \/ Usage

SpecArgspec == ArgspecInit /\ [][ArgspecNext]_vars

(***************************************************************************)
(* What the claims on grammars speak of, stated on the tokens alone.       *)
(***************************************************************************)
\* A token without the marks of its shape: a leading `--` or `[`, a
\* trailing `?`, `...]`, `]` or `...`.
Unmarked(tok) ==
    LET Lead(t) == IF StartsWith(t, "--") THEN SubSeq(t, 3, Len(t))
                   ELSE IF StartsWith(t, "[") THEN SubSeq(t, 2, Len(t)) ELSE t
        Foot(t) == IF EndsWith(t, "...]") THEN SubSeq(t, 1, Len(t) - 4)
                   ELSE IF EndsWith(t, "...") THEN SubSeq(t, 1, Len(t) - 3)
                   ELSE IF EndsWith(t, "]") \/ EndsWith(t, "?") THEN SubSeq(t, 1, Len(t) - 1)
                   ELSE t
    IN  Foot(Lead(tok))

\* The name a token declares, its `:type` left out.
TokenName(tok) ==
    IF Find(Unmarked(tok), ":") > 0
    THEN SubSeq(Unmarked(tok), 1, Find(Unmarked(tok), ":") - 1)
    ELSE Unmarked(tok)

\* All the names of an Argspec, category after category.
AllNames(argspec) ==
    argspec.switches \o argspec.flags \o argspec.lists \o argspec.positional
        \o argspec.optional \o argspec.tail

\* C22: no name occurs twice, within or across the categories, in an Argspec
\* parse_argspec returns, and a grammar in which two tokens declare the same
\* name is rejected.
C22_NamesUnique ==
    bpc = "compiled" =>
        /\ bspec.exc = "" =>
              \A i, j \in 1..Len(AllNames(bspec.argspec)) :
                  AllNames(bspec.argspec)[i] = AllNames(bspec.argspec)[j] => i = j
        /\ (\E i, j \in 1..Len(bargv) : i # j /\ TokenName(bargv[i]) = TokenName(bargv[j]))
              => bspec.exc # ""

\* The `:type` a token declares, "" when it declares none.
TokenType(tok) ==
    IF Find(Unmarked(tok), ":") > 0
    THEN SubSeq(Unmarked(tok), Find(Unmarked(tok), ":") + 1, Len(Unmarked(tok)))
    ELSE ""

\* The category a token's shape denotes: `--name?`, `--name...`, `--name`,
\* a bare name, `[name]`, `[name...]`; "other" for every other shape.
Shape(tok) ==
    IF StartsWith(tok, "--")
    THEN IF EndsWith(tok, "?") THEN "switches"
         ELSE IF EndsWith(tok, "...") THEN "lists" ELSE "flags"
    ELSE IF StartsWith(tok, "[")
    THEN IF EndsWith(tok, "...]") THEN "tail"
         ELSE IF EndsWith(tok, "]") THEN "optional" ELSE "other"
    ELSE IF EndsWith(tok, "]") \/ EndsWith(tok, "...") \/ EndsWith(tok, "?") THEN "other"
    ELSE "positional"

\* The phase of the grammar a shape belongs to.
Phase(tok) ==
    CASE Shape(tok) \in {"switches", "flags", "lists"} -> 1
      [] Shape(tok) = "positional" -> 2
      [] Shape(tok) = "optional" -> 3
      [] Shape(tok) = "tail" -> 4
      [] OTHER -> 0

\* C23: parse_argspec returns an Argspec only for a grammar whose tokens are
\* flag-like forms, then bare positional names, then `[name]` optionals, then
\* at most one `[name...]` tail as the last token, every token of one of these
\* shapes, filed under the category of its shape, and every declared `:type`
\* one of the declared types; every other grammar raises.
C23_GrammarAccepted ==
    bpc = "compiled" /\ bspec.exc = "" =>
        /\ \A i \in 1..Len(bargv) :
            /\ Shape(bargv[i]) # "other"
            /\ TokenType(bargv[i]) \in ArgTypes \cup {""}
            /\ TokenName(bargv[i]) \in Range(bspec.argspec[Shape(bargv[i])])
        /\ \A i, j \in 1..Len(bargv) : i < j => Phase(bargv[i]) <= Phase(bargv[j])
        /\ \A i \in 1..Len(bargv) : Shape(bargv[i]) = "tail" => i = Len(bargv)

\* ---------------------------------------------------------------------------
\* try_parse on its own: one token parsed under one declared type.  bargv is
\* <<the token>>, bspec the declared type ("" for none), bres what try_parse
\* returned or raised.
\* ---------------------------------------------------------------------------

ParseTokens ==
    {"7", "-7", "07", "+7", "-0", "", "0", "10", "-10", "99", "007", "--7", "7-",
     " 7", "7 ", "1_0", "0x7", "true", "false", "True", "TRUE", "1", "yes",
     "1.5", "-1.5", "1.50", "01.5", "1.", ".5", "7.0", "inf", "nan", "x", "a b"}

ParseTypes == ArgTypes \cup {""}

ParseInit ==
    /\ bpc = "token"
    /\ bspec \in ParseTypes
    /\ \E tok \in ParseTokens : bargv = <<tok>>
    /\ bres = VNone
    /\ CodecIdle
    /\ PipeIdle
    /\ RunIdle

\* value = try_parse(name, value, argtype)
TryParse ==
    /\ bpc = "token"
    /\ bres' = try_parse("n", bargv, bspec)
    /\ bpc' = "parsed"
    /\ UNCHANGED <<bspec, bargv, cpc, cval, cbuf, cres, client, server, pipe, run, disk>>

ParseNext == TryParse

SpecParse == ParseInit /\ [][ParseNext]_vars

\* The integers whose decimal rendering a drawn token can be.
SmallInts == -100..100

\* C24: under `int` try_parse returns n exactly when the token is the
\* canonical decimal rendering of n and raises BadArg for every other token;
\* under `bool` it accepts `true` and `false` only; under `str` it returns the
\* token unchanged; under `scalar` or no type it never fails, returning n for
\* the canonical rendering of n and otherwise a float or the token unchanged.
C24_PerValueParsing ==
    bpc = "parsed" =>
        LET tok == bargv[1]
            IsCanonical == \E n \in SmallInts : IntToStr(n) = tok
            TheInt == CHOOSE n \in SmallInts : IntToStr(n) = tok
        IN  /\ bspec = "int" =>
                IF IsCanonical THEN bres = Returned(VInt(TheInt)) ELSE bres.exc = "BadArg"
            /\ bspec = "bool" =>
                CASE tok = "true" -> bres = Returned(VTrue)
                  [] tok = "false" -> bres = Returned(VFalse)
                  [] OTHER -> bres.exc = "BadArg"
            /\ bspec = "str" => bres = Returned(VStr(tok))
            /\ bspec \in {"scalar", ""} =>
                /\ bres.exc = ""
                /\ IF IsCanonical THEN bres.v = VInt(TheInt)
                   ELSE bres.v = VStr(tok) \/ bres.v[1] = "float"

\* The token `-7` under the type `int` has been parsed to the integer -7.
C24_Witness ==
    /\ bpc = "parsed" /\ bspec = "int" /\ bargv = <<"-7">>
    /\ bres = Returned(VInt(-7))

\* The category and the name an item of the usage line shows, read from the
\* item's form; <<"none", "">> for an item of no form.
ReadBack(item) ==
    LET Inner(a, b) == SubSeq(item, a + 1, Len(item) - b)
        Named(t) == IF Find(t, "=") > 0 THEN SubSeq(t, 1, Find(t, "=") - 1) ELSE t
    IN  CASE StartsWith(item, "[--") /\ EndsWith(item, ">...]") -> <<"lists", Named(Inner(3, 5))>>
          [] StartsWith(item, "[--") /\ EndsWith(item, ">]") -> <<"flags", Named(Inner(3, 2))>>
          [] StartsWith(item, "[--") /\ EndsWith(item, "]") -> <<"switches", Inner(3, 1)>>
          [] StartsWith(item, "[<") /\ EndsWith(item, ">...]") -> <<"tail", Inner(2, 5)>>
          [] StartsWith(item, "[<") /\ EndsWith(item, ">]") -> <<"optional", Inner(2, 2)>>
          [] StartsWith(item, "<") /\ EndsWith(item, ">") -> <<"positional", Inner(1, 1)>>
          [] OTHER -> <<"none", "">>

\* What the usage text shows: the items after `usage: prog`, read back.
Shown(text) ==
    LET items == Split(Text(text))
    IN  {ReadBack(items[i]) : i \in 3..Len(items)} \ {<<"none", "">>}

\* What an Argspec declares: every name with its category.
Declared(argspec) ==
    UNION {{<<c, argspec[c][i]>> : i \in 1..Len(argspec[c])} :
           c \in {"switches", "flags", "lists", "positional", "optional", "tail"}}

\* C25: the usage text of a compiled grammar shows every declared name in the
\* form of its category, and nothing else: reading the text back gives, for
\* every name, the category the grammar gave it.
C25_UsageRoundTrip ==
    bpc = "rendered" => Shown(bres) = Declared(bspec.argspec)

\* C26: complete(path, token) never raises: on the node the path leads to it
\* returns the child names that start with the token when no path remains
\* and there are such names, for a token starting with `--` or `-` the
\* matching switches as `--name` and the matching flags and lists as
\* `--name=`, and no candidate in every other case.
C26_Completion ==
    run.pc = "complete" =>
        LET got == complete(run.obj, run.action.path, run.action.argv)
            text == run.action.argv
            Children(node) == [i \in 1..Len(Attr(node, "subcommands")[2]) |->
                                  Text(Attr(node, "subcommands")[2][i][1][2])]
            Dashed == IF StartsWith(text, "--") THEN SubSeq(text, 3, Len(text))
                      ELSE SubSeq(text, 2, Len(text))
            Flagged(spec) ==
                {"--" \o n : n \in {m \in Range(spec.switches) : StartsWith(m, Dashed)}}
                \cup {"--" \o n \o "=" :
                         n \in {m \in Range(spec.flags \o spec.lists) : StartsWith(m, Dashed)}}
        IN  /\ got.ok
            /\ \A node \in {run.obj} \cup Range([i \in 1..Len(Attr(run.obj, "subcommands")[2]) |->
                                                    Attr(run.obj, "subcommands")[2][i][2]]) :
                  (\/ run.action.path = <<>> /\ node = run.obj
                   \/ Len(run.action.path) = 1 /\ HasSub(run.obj, run.action.path[1])
                          /\ node = Sub(run.obj, run.action.path[1])) =>
                      (got.ok =>
                          IF run.action.path = <<>>
                                /\ \E n \in Range(Children(node)) : StartsWith(n, text)
                          THEN Range(got.val) = {n \in Range(Children(node)) : StartsWith(n, text)}
                          ELSE IF StartsWith(text, "-") /\ Find(Dashed, "=") = 0
                                  /\ Truthy(Attr(node, "argspec"))
                          THEN Range(got.val) = Flagged(ArgspecOf(Attr(node, "argspec")))
                          ELSE got.val = <<>>)

\* The cli.Command a grammar of the binder's scenarios is compiled for:
\* nargs is the number of names the grammar declares, and the executable is
\* `rest`, whose parameters are those of the grammar "a [t...]".
BoundCommand(argspec) ==
    Command("rest", <<"prog">>, <<>>, <<>>, "rest", <<argspec>>, Len(AllNames(argspec)))

\* The mapping of a call Action as cli.Command.call is handed it.
BoundArgv(args) == VDict([i \in 1..Len(args) |-> <<VStr(args[i][1]), args[i][2]>>])

\* C27: the mapping the binder returns for an accepted argv has as many names
\* as the compiled arity, so that cli.Command.call, given the call Action's
\* mapping, invokes the executable and never answers `bad options` with exit
\* code -1.
C27_ResolveExecute ==
    bpc = "done" /\ bres.exc = "" =>
        /\ PyLen(BoundArgv(bres.args)) = BoundCommand(bspec).nargs
        /\ Range(AllNames(bspec)) = Range(Executables["rest"].params) =>
              call(BoundCommand(bspec), VList(<<>>), BoundArgv(bres.args))
                  # Ok(Response(VInt(-1), VStr("bad options"), VTuple(<<>>)))

\* C28: every Response offer_pipe has written is the one computed from the
\* Request it answers and from nothing else; a Request whose action is
\* neither `render` nor `call` has none, so none is written for it, and the
\* Response of an earlier Request is never written again.
C28_NoStaleResponse ==
    \A i \in 1..Len(server.written) :
        LET fresh == Dispatch(Root, server.read[i], <<>>)
        IN  fresh.ok /\ fresh.val = <<server.written[i]>>

\* C29: whenever codec.parse(b, 0) returns (v, n), the first n bytes of b
\* are exactly codec.dump(v): parse accepts the canonical encoding of a value
\* and no other.
C29_CanonicalOnly ==
    cpc = "parsed" /\ cres.ok =>
        LET again == dump(cres.val, ByteArray(<<>>))
        IN  again.ok /\ again.buf.data = SubSeq(cbuf.buf.data, 1, cres.off)

(***************************************************************************)
(* rson.server.Server: a thread that serves one request after the other    *)
(* while self.running, and the thread that starts and stops it.  client is *)
(* the calling thread (the test of rson_test.py, or any caller that calls  *)
(* start() and later stop()), server the Server thread with the attribute  *)
(* self.running both threads write, pipe the connections accepted by the   *)
(* listening socket of make_server and not yet handled.  A connection is   *)
(* "get", a request of the caller that waits for its answer, "poke", the   *)
(* `\r\n` stop() sends, or "other", a request of some other client.        *)
(***************************************************************************)
MaxGets   == 2     \* requests the caller makes between start() and stop()
MaxOthers == 1     \* requests other clients make

Caller == <<cpc, cval, cbuf, cres, bpc, bspec, bargv, bres, run, disk>>

\* Server(app, port): self.running = True, the socket is listening, the
\* thread is not started.
RsonInit ==
    /\ client = [pc |-> "init", gets |-> 0]
    /\ server = [pc |-> "new", running |-> TRUE, served |-> 0]
    /\ pipe = [backlog |-> <<>>, others |-> 0]
    /\ CodecIdle
    /\ BinderIdle
    /\ RunIdle

\* s.start(): the thread is alive when start() returns, run() not yet
\* entered.
Start ==
    /\ client.pc = "init"
    /\ client' = [client EXCEPT !.pc = "idle"]
    /\ server' = [server EXCEPT !.pc = "run"]
    /\ UNCHANGED <<pipe, Caller>>

\* c = client.get(s.url): the caller connects and waits for the answer.
Get ==
    /\ client.pc = "idle"
    /\ client.gets < MaxGets
    /\ client' = [client EXCEPT !.pc = "waiting", !.gets = @ + 1]
    /\ pipe' = [pipe EXCEPT !.backlog = Append(@, "get")]
    /\ UNCHANGED <<server, Caller>>

\* Some other client connects to the port.
Connect ==
    /\ pipe.others < MaxOthers
    /\ pipe' = [pipe EXCEPT !.backlog = Append(@, "other"), !.others = @ + 1]
    /\ UNCHANGED <<client, server, Caller>>

\* stop(): self.running = False
StopClear ==
    /\ client.pc = "idle"
    /\ client' = [client EXCEPT !.pc = "check"]
    /\ server' = [server EXCEPT !.running = FALSE]
    /\ UNCHANGED <<pipe, Caller>>

\* stop(): if self.server and self.is_alive():
StopCheck ==
    /\ client.pc = "check"
    /\ client' = [client EXCEPT !.pc = IF server.pc \in {"new", "dead"} THEN "join" ELSE "poke"]
    /\ UNCHANGED <<server, pipe, Caller>>

\* stop(): s.connect(...); s.send(b'\r\n'); s.close()
StopPoke ==
    /\ client.pc = "poke"
    /\ client' = [client EXCEPT !.pc = "join"]
    /\ pipe' = [pipe EXCEPT !.backlog = Append(@, "poke")]
    /\ UNCHANGED <<server, Caller>>

\* stop(): self.join(5) returns, the thread having ended or the five
\* seconds having passed.
StopJoin ==
    /\ client.pc = "join"
    /\ client' = [client EXCEPT !.pc = "returned"]
    /\ UNCHANGED <<server, pipe, Caller>>

\* run(): self.running = True
RunSet ==
    /\ server.pc = "run"
    /\ server' = [server EXCEPT !.pc = "loop", !.running = TRUE]
    /\ UNCHANGED <<client, pipe, Caller>>

\* run(): while self.running:
RunTest ==
    /\ server.pc = "loop"
    /\ server' = [server EXCEPT !.pc = IF server.running THEN "handle" ELSE "dead"]
    /\ UNCHANGED <<client, pipe, Caller>>

\* run(): self.server.handle_request() waits for a connection and handles
\* it; the caller waiting for its answer goes on.
HandleRequest ==
    /\ server.pc = "handle"
    /\ pipe.backlog # <<>>
    /\ pipe' = [pipe EXCEPT !.backlog = Tail(@)]
    /\ server' = [server EXCEPT !.pc = "loop", !.served = @ + 1]
    /\ client' = IF Head(pipe.backlog) = "get" THEN [client EXCEPT !.pc = "idle"] ELSE client
    /\ UNCHANGED Caller

ServerThread == RunSet \/ RunTest \/ HandleRequest

Stopping == StopCheck \/ StopPoke \/ StopJoin

RsonNext ==
    \/ Start
    \/ Get
    \/ Connect
    \/ StopClear
    \/ StopCheck
    \/ StopPoke
    \/ StopJoin
    \/ RunSet
    \/ RunTest
    \/ HandleRequest

SpecRson == RsonInit /\ [][RsonNext]_vars

\* Both threads are scheduled: a step of the Server thread that stays
\* possible is taken, and stop(), once called, runs to its end.
SpecRsonFair == SpecRson /\ WF_vars(ServerThread) /\ WF_vars(Stopping)

\* stop() has been called: its first statement has run.
StopCalled == client.pc \in {"check", "poke", "join", "returned"}

\* C30: once stop() has been called the Server thread eventually leaves its
\* loop and ends.
C30_Shutdown == StopCalled ~> (server.pc = "dead")

\* After stop() has returned the Server thread is not in its loop with
\* running set back to true.
NotRunningAfterStop ==
    client.pc = "returned" => ~(server.running /\ server.pc \in {"loop", "handle"})

====
